---------------------------- MODULE Spec2Model ----------------------------
(***************************************************************************)
(* Folder Maker (yhslog/VSCodeExt-folderMaker): the template processing    *)
(* core and the orchestration of one "create from template" run.           *)
(*                                                                         *)
(* Strings are sequences of one-character strings, so that the regular     *)
(* expressions of the source are modelled character by character.  Paths   *)
(* follow Node's POSIX `path` module (path.sep = "/").                     *)
(***************************************************************************)
EXTENDS Integers, Sequences, FiniteSets, TLC

VARIABLES
    pc,              \* position of execute(): start, plan, loop, stat, prompt, write, done
    limits,          \* ResourceLimits of the TemplateProcessor
    context,         \* TemplateContext gathered from the user (or NoContext)
    plan,            \* result of planFileOperations: [kind, ops]
    idx,             \* loop variable i of executeOperations (1-based here)
    conflictPolicy,  \* "ask" | "overwrite" | "skip"
    created,         \* created: string[] of executeOperations
    disk,            \* the file system: a function from existing paths to content
    disk0,           \* the file system when the run started
    cancelRequested, \* token.isCancellationRequested
    outstanding,     \* asynchronous calls started and not yet completed
    log,             \* every collaborator call and output line of the run, in order
    outcome,         \* how the run ended: none, noInput, failed, cancelled, completed
    runs,            \* number of invocations of execute() so far
    sub,             \* input and result of one VariableSubstitution.apply call
    call             \* method, argument and result of one PathValidator call

vars == << pc, limits, context, plan, idx, conflictPolicy, created, disk, disk0,
           cancelRequested, outstanding, log, outcome, runs, sub, call >>

---------------------------------------------------------------------------
(* Bounds *)

\* The longest template of a run of execute()
MaxFiles == 3

\* The number of invocations of execute()
MaxRuns == 2

\* The longest template planFileOperations is called on, apart from the
\* two templates at the default file count
MaxPlanFiles == 2

\* The number of pieces a template string of apply is put together from
MaxPieces == 4

\* The longest argument of a call of PathValidator put together from single
\* characters
MaxArgLen == 4

\* The longest path, after its leading separator, that isSafe is called on
MaxPathLen == 3

\* The longest argument of a case transform put together from single
\* characters
MaxCaseLen == 4

---------------------------------------------------------------------------
(* Characters *)

LowerSeq == << "a","b","c","d","e","f","g","h","i","j","k","l","m",
               "n","o","p","q","r","s","t","u","v","w","x","y","z" >>

UpperSeq == << "A","B","C","D","E","F","G","H","I","J","K","L","M",
               "N","O","P","Q","R","S","T","U","V","W","X","Y","Z" >>

Lower == { LowerSeq[k] : k \in DOMAIN LowerSeq }

Upper == { UpperSeq[k] : k \in DOMAIN UpperSeq }

Digit == { "0","1","2","3","4","5","6","7","8","9" }

Letter == Lower \cup Upper

\* [a-zA-Z_]
IdentStart == Letter \cup { "_" }

\* [a-zA-Z0-9_]
IdentChar == IdentStart \cup Digit

\* \s of the alphabet used here: space, tab, line feed
Whitespace == { " ", "\t", "\n" }

\* The backtick character (it cannot be written in a string literal here)
Backtick == "BACKTICK"

\* String.prototype.toUpperCase on one character
ToUpper(c) ==
    IF c \in Lower THEN UpperSeq[CHOOSE k \in DOMAIN LowerSeq : LowerSeq[k] = c]
    ELSE c

\* String.prototype.toLowerCase on one character
ToLower(c) ==
    IF c \in Upper THEN LowerSeq[CHOOSE k \in DOMAIN UpperSeq : UpperSeq[k] = c]
    ELSE c

\* String.prototype.toLowerCase
ToLowerCase(s) == [k \in DOMAIN s |-> ToLower(s[k])]

\* index of the last character of the longest run of characters of S that
\* starts at i (i - 1 when s[i] is not in S): a greedy S* at position i
RECURSIVE RunEnd(_, _, _)
RunEnd(s, i, S) ==
    IF i <= Len(s) /\ s[i] \in S THEN RunEnd(s, i + 1, S) ELSE i - 1

Range(s) == { s[k] : k \in DOMAIN s }

\* String.prototype.startsWith
StartsWith(s, prefix) ==
    /\ Len(prefix) <= Len(s)
    /\ SubSeq(s, 1, Len(prefix)) = prefix

\* s.replace(/pat/g, rep) for a literal pattern: leftmost matches, not
\* overlapping, the replacement text is not scanned again
RECURSIVE ReplaceLitFrom(_, _, _, _)
ReplaceLitFrom(s, i, pat, rep) ==
    IF i > Len(s) THEN << >>
    ELSE IF i + Len(pat) - 1 <= Len(s) /\ SubSeq(s, i, i + Len(pat) - 1) = pat
         THEN rep \o ReplaceLitFrom(s, i + Len(pat), pat, rep)
         ELSE << s[i] >> \o ReplaceLitFrom(s, i + 1, pat, rep)

ReplaceLit(s, pat, rep) == ReplaceLitFrom(s, 1, pat, rep)

---------------------------------------------------------------------------
(* utils/case.ts *)

\* [-_\s]
CaseSep == { "-", "_" } \cup Whitespace

\* .replace(/([a-z0-9])([A-Z])/g, "$1-$2")
RECURSIVE KebabLowerUpper(_, _)
KebabLowerUpper(s, i) ==
    IF i > Len(s) THEN << >>
    ELSE IF i + 1 <= Len(s) /\ s[i] \in (Lower \cup Digit) /\ s[i + 1] \in Upper
         THEN << s[i], "-", s[i + 1] >> \o KebabLowerUpper(s, i + 2)
         ELSE << s[i] >> \o KebabLowerUpper(s, i + 1)

\* .replace(/([A-Z]+)([A-Z][a-z])/g, "$1-$2"): a run of at least two capitals
\* followed by a lower-case letter is split before its last capital
RECURSIVE KebabAcronym(_, _)
KebabAcronym(s, i) ==
    IF i > Len(s) THEN << >>
    ELSE LET j == RunEnd(s, i, Upper)
         IN  IF j >= i + 1 /\ j + 1 <= Len(s) /\ s[j + 1] \in Lower
             THEN SubSeq(s, i, j - 1) \o << "-", s[j], s[j + 1] >>
                  \o KebabAcronym(s, j + 2)
             ELSE << s[i] >> \o KebabAcronym(s, i + 1)

\* .replace(/[_\s]+/g, "-")
RECURSIVE KebabSeparators(_, _)
KebabSeparators(s, i) ==
    IF i > Len(s) THEN << >>
    ELSE IF s[i] \in ({ "_" } \cup Whitespace)
         THEN << "-" >>
              \o KebabSeparators(s, RunEnd(s, i, { "_" } \cup Whitespace) + 1)
         ELSE << s[i] >> \o KebabSeparators(s, i + 1)

\* toKebab without its first replacement
toKebab_NoLowerUpper(input) ==
    ToLowerCase(KebabSeparators(KebabAcronym(input, 1), 1))

toKebab(input) ==
    ToLowerCase(
        KebabSeparators(KebabAcronym(KebabLowerUpper(input, 1), 1), 1))

\* .replace(/[-_\s]+(.)?/g, (_, c) => (c ? c.toUpperCase() : ""))
\* (the character after a separator run is no separator, hence no line break)
RECURSIVE UpperAfterSeparators(_, _)
UpperAfterSeparators(s, i) ==
    IF i > Len(s) THEN << >>
    ELSE IF s[i] \in CaseSep
         THEN LET j == RunEnd(s, i, CaseSep)
              IN  IF j + 1 <= Len(s)
                  THEN << ToUpper(s[j + 1]) >> \o UpperAfterSeparators(s, j + 2)
                  ELSE << >>
         ELSE << s[i] >> \o UpperAfterSeparators(s, i + 1)

\* .replace(/^(.)/, (m) => m.toLowerCase()): the first character, unless it
\* is a line break
LowerFirst(s) ==
    IF Len(s) > 0 /\ s[1] # "\n" THEN << ToLower(s[1]) >> \o Tail(s) ELSE s

\* .replace(/^(.)/, (m) => m.toUpperCase())
UpperFirst(s) ==
    IF Len(s) > 0 /\ s[1] # "\n" THEN << ToUpper(s[1]) >> \o Tail(s) ELSE s

\* toCamel with its two replacements in the other order
toCamel_LowerFirstBefore(input) == UpperAfterSeparators(LowerFirst(input), 1)

toCamel(input) == LowerFirst(UpperAfterSeparators(input, 1))

\* input.replace(/^[-_\s]+|[-_\s]+$/g, "")
RECURSIVE StripTrailingSeps(_)
StripTrailingSeps(s) ==
    IF Len(s) > 0 /\ s[Len(s)] \in CaseSep
    THEN StripTrailingSeps(SubSeq(s, 1, Len(s) - 1))
    ELSE s

StripSeps(s) ==
    StripTrailingSeps(SubSeq(s, RunEnd(s, 1, CaseSep) + 1, Len(s)))

toPascal(input) ==
    IF input = << >> THEN << >>
    ELSE LET trimmed == StripSeps(input)
         IN  IF trimmed = << >> THEN << >>
             ELSE UpperFirst(UpperAfterSeparators(trimmed, 1))

---------------------------------------------------------------------------
(* services/variableSubstitution.ts *)

\* Some of the names every plain JavaScript object inherits from
\* Object.prototype: `variables[varName]` is not undefined for them
ObjectPrototypeNames ==
    { << "c","o","n","s","t","r","u","c","t","o","r" >>,
      << "t","o","S","t","r","i","n","g" >> }

NoMatch == [ok |-> FALSE, last |-> 0, varName |-> << >>, transform |-> << >>]

\* VARIABLE_REGEX = /\$\{([a-zA-Z_][a-zA-Z0-9_]*)(?:\|([a-zA-Z]+))?\}/ tried at
\* position i of t; `last` is the index of the closing brace, `transform` is
\* empty when the optional group did not take part
VariableMatch(t, i) ==
    IF ~(i + 2 <= Len(t) /\ t[i] = "$" /\ t[i + 1] = "{" /\ t[i + 2] \in IdentStart)
    THEN NoMatch
    ELSE LET j == RunEnd(t, i + 3, IdentChar)
         IN  IF j + 1 <= Len(t) /\ t[j + 1] = "}"
             THEN [ok |-> TRUE, last |-> j + 1,
                   varName |-> SubSeq(t, i + 2, j), transform |-> << >>]
             ELSE IF j + 2 <= Len(t) /\ t[j + 1] = "|" /\ t[j + 2] \in Letter
             THEN LET k == RunEnd(t, j + 3, Letter)
                  IN  IF k + 1 <= Len(t) /\ t[k + 1] = "}"
                      THEN [ok |-> TRUE, last |-> k + 1,
                            varName |-> SubSeq(t, i + 2, j),
                            transform |-> SubSeq(t, j + 2, k)]
                      ELSE NoMatch
             ELSE NoMatch

\* value.replace(/\$\{/g, "\\${").replace(/<backtick>/g, "\\<backtick>")
\*      .replace(/\\/g, "\\\\")
sanitizeValue(value) ==
    ReplaceLit(
        ReplaceLit(
            ReplaceLit(value, << "$", "{" >>, << "\\", "$", "{" >>),
            << Backtick >>, << "\\", Backtick >>),
        << "\\" >>, << "\\", "\\" >>)

TransformCamel == << "c","a","m","e","l","c","a","s","e" >>

TransformKebab == << "k","e","b","a","b","c","a","s","e" >>

TransformPascal == << "p","a","s","c","a","l","c","a","s","e" >>

\* switch (transform.toLowerCase())
applyTransformation(value, transform) ==
    LET t == ToLowerCase(transform)
    IN  IF t = TransformCamel THEN toCamel(value)
        ELSE IF t = TransformKebab THEN toKebab(value)
        ELSE IF t = TransformPascal THEN toPascal(value)
        ELSE value

\* variables[varName] on a plain object: the own property, else the
\* property inherited from Object.prototype, else undefined
Lookup(variables, varName) ==
    IF varName \in DOMAIN variables
    THEN [kind |-> "string", value |-> variables[varName]]
    ELSE IF varName \in ObjectPrototypeNames
    THEN [kind |-> "inherited", value |-> << >>]
    ELSE [kind |-> "undefined", value |-> << >>]

\* The callback of template.replace: the text that replaces one match m of
\* template t.  An inherited value is not a string: sanitizeValue calls
\* value.replace on it, which throws a TypeError.
Replacement(t, first, m, variables) ==
    LET v == Lookup(variables, m.varName)
    IN  IF v.kind = "undefined"
        THEN [ok |-> TRUE, val |-> SubSeq(t, first, m.last)]
        ELSE IF v.kind = "inherited"
        THEN [ok |-> FALSE, val |-> << >>]
        ELSE LET sanitized == sanitizeValue(v.value)
             IN  IF m.transform # << >>
                 THEN [ok |-> TRUE, val |-> applyTransformation(sanitized, m.transform)]
                 ELSE [ok |-> TRUE, val |-> sanitized]

\* template.replace(VARIABLE_REGEX, callback) from position i on: one pass,
\* left to right; matching resumes after the match, never inside the
\* replacement.  [ok |-> FALSE] when the callback threw.
RECURSIVE ApplyFrom(_, _, _)
ApplyFrom(t, i, variables) ==
    IF i > Len(t) THEN [ok |-> TRUE, val |-> << >>]
    ELSE LET m == VariableMatch(t, i)
         IN  IF m.ok
             THEN LET r    == Replacement(t, i, m, variables)
                      rest == ApplyFrom(t, m.last + 1, variables)
                  IN  IF r.ok /\ rest.ok
                      THEN [ok |-> TRUE, val |-> r.val \o rest.val]
                      ELSE [ok |-> FALSE, val |-> << >>]
             ELSE LET rest == ApplyFrom(t, i + 1, variables)
                  IN  IF rest.ok
                      THEN [ok |-> TRUE, val |-> << t[i] >> \o rest.val]
                      ELSE rest

\* apply with a second pass over its own result
apply_SecondPass(template, variables) ==
    LET first == ApplyFrom(template, 1, variables)
    IN  IF first.ok THEN ApplyFrom(first.val, 1, variables) ELSE first

\* VariableSubstitution.apply
apply(template, variables) == ApplyFrom(template, 1, variables)

\* The names of the well-formed tokens of a template (extractVariableNames)
RECURSIVE TokenNamesFrom(_, _)
TokenNamesFrom(t, i) ==
    IF i > Len(t) THEN { }
    ELSE LET m == VariableMatch(t, i)
         IN  IF m.ok THEN { m.varName } \cup TokenNamesFrom(t, m.last + 1)
             ELSE TokenNamesFrom(t, i + 1)

extractVariableNames(template) == TokenNamesFrom(template, 1)

---------------------------------------------------------------------------
(* Node's path module, POSIX flavour *)

\* s.split(/[seps]/): the segments between separators, empty ones included
RECURSIVE SplitFrom(_, _, _)
SplitFrom(s, i, seps) ==
    LET j == RunEnd(s, i, { c \in Range(s) : c \notin seps })
    IN  IF j >= Len(s) THEN << SubSeq(s, i, Len(s)) >>
        ELSE << SubSeq(s, i, j) >> \o SplitFrom(s, j + 2, seps)

Split(s, seps) == SplitFrom(s, 1, seps)

\* segments.join(sep)
RECURSIVE Join(_, _)
Join(segments, sep) ==
    IF segments = << >> THEN << >>
    ELSE IF Len(segments) = 1 THEN segments[1]
    ELSE segments[1] \o sep \o Join(Tail(segments), sep)

DotDot == << ".", "." >>

\* normalizeString: resolves "." and ".." segments and drops empty ones;
\* `done` are the segments kept so far
RECURSIVE NormalizeSegments(_, _, _)
NormalizeSegments(segments, done, allowAboveRoot) ==
    IF segments = << >> THEN done
    ELSE LET seg  == Head(segments)
             rest == Tail(segments)
         IN  IF seg = << >> \/ seg = << "." >>
             THEN NormalizeSegments(rest, done, allowAboveRoot)
             ELSE IF seg = DotDot
             THEN IF done # << >> /\ done[Len(done)] # DotDot
                  THEN NormalizeSegments(rest, SubSeq(done, 1, Len(done) - 1),
                                         allowAboveRoot)
                  ELSE IF allowAboveRoot
                  THEN NormalizeSegments(rest, Append(done, seg), allowAboveRoot)
                  ELSE NormalizeSegments(rest, done, allowAboveRoot)
             ELSE NormalizeSegments(rest, Append(done, seg), allowAboveRoot)

normalizeString(p, allowAboveRoot) ==
    Join(NormalizeSegments(Split(p, { "/" }), << >>, allowAboveRoot), << "/" >>)

isAbsolute(p) == Len(p) > 0 /\ p[1] = "/"

\* path.normalize
PathNormalize(p) ==
    IF p = << >> THEN << "." >>
    ELSE LET trailingSeparator == p[Len(p)] = "/"
             n == normalizeString(p, ~isAbsolute(p))
         IN  IF n = << >>
             THEN IF isAbsolute(p) THEN << "/" >>
                  ELSE IF trailingSeparator THEN << ".", "/" >> ELSE << "." >>
             ELSE LET m == IF trailingSeparator THEN n \o << "/" >> ELSE n
                  IN  IF isAbsolute(p) THEN << "/" >> \o m ELSE m

\* path.join(a, b)
PathJoin(a, b) ==
    IF a = << >> /\ b = << >> THEN << "." >>
    ELSE IF a = << >> THEN PathNormalize(b)
    ELSE IF b = << >> THEN PathNormalize(a)
    ELSE PathNormalize(a \o << "/" >> \o b)

\* process.cwd(), used by path.resolve when no argument is absolute
Cwd == << "/", "c", "w", "d" >>

\* path.resolve(a, b): the arguments are taken from the right until the
\* path is absolute; empty arguments are skipped
PathResolve(a, b) ==
    LET fromB == IF b = << >> THEN << >> ELSE b \o << "/" >>
        fromA == IF isAbsolute(b) \/ a = << >> THEN fromB
                 ELSE a \o << "/" >> \o fromB
        full  == IF isAbsolute(fromA) THEN fromA ELSE Cwd \o << "/" >> \o fromA
        n     == normalizeString(full, FALSE)
    IN  << "/" >> \o n

\* path.dirname of a normalized absolute path
dirname(p) ==
    LET segments == SelectSeq(Split(p, { "/" }), LAMBDA seg : seg # << >>)
    IN  << "/" >> \o Join(SubSeq(segments, 1, Len(segments) - 1), << "/" >>)

---------------------------------------------------------------------------
(* utils/pathValidator.ts *)

PathSeps == { "/", "\\" }

\* relativePath.replace(/^[/\\]+/, "")
StripLeadingSeps(s) == SubSeq(s, RunEnd(s, 1, PathSeps) + 1, Len(s))

\* .filter((segment) => segment && segment !== "." && segment !== "..")
KeepSegment(segment) ==
    segment # << >> /\ segment # << "." >> /\ segment # DotDot

\* sanitizePath without the filter of its segments
sanitizePath_Unfiltered(relativePath) ==
    Join(Split(StripLeadingSeps(ReplaceLit(relativePath, DotDot, << >>)), PathSeps),
         << "/" >>)

\* PathValidator.sanitizePath
sanitizePath(relativePath) ==
    Join(SelectSeq(Split(StripLeadingSeps(ReplaceLit(relativePath, DotDot, << >>)),
                         PathSeps),
                   KeepSegment),
         << "/" >>)

\* PathValidator.isSafe
isSafe(resolvedPath, targetRoot) ==
    StartsWith(PathNormalize(resolvedPath), PathNormalize(targetRoot))

---------------------------------------------------------------------------
(* services/templateProcessor.ts *)

\* Two characters outside ASCII: U+00E9 (2 bytes in UTF-8), U+20AC (3 bytes)
EAcute == "E_ACUTE"

Euro == "EURO"

\* Buffer.byteLength(s, "utf8")
byteLength(s) ==
    Len(s) + Cardinality({ k \in DOMAIN s : s[k] = EAcute })
           + 2 * Cardinality({ k \in DOMAIN s : s[k] = Euro })

\* A TemplateFile; `content` is optional
File(path, content) == [path |-> path, hasContent |-> TRUE, content |-> content]

FileNoContent(path) == [path |-> path, hasContent |-> FALSE, content |-> << >>]

\* file.content ?? ""
ContentOrEmpty(file) == IF file.hasContent THEN file.content ELSE << >>

DEFAULT_LIMITS ==
    [maxFilesPerTemplate |-> 100,
     maxFileSizeBytes    |-> 10 * 1024 * 1024,
     maxTotalSizeBytes   |-> 100 * 1024 * 1024]

\* totalSize += contentSize over the files lo..hi; the range is halved at
\* each step, so that a template of a hundred files is summed at depth seven
RECURSIVE ContentSizes(_, _, _)
ContentSizes(files, lo, hi) ==
    IF lo > hi THEN 0
    ELSE IF lo = hi THEN byteLength(ContentOrEmpty(files[lo]))
    ELSE ContentSizes(files, lo, (lo + hi) \div 2)
         + ContentSizes(files, (lo + hi) \div 2 + 1, hi)

\* ValidateSizes with `>=` in place of `>`: a template at a limit is refused
ValidateSizes_AtLimitRefused(files, k, totalSize, lim) ==
    IF \E j \in k..Len(files) :
          byteLength(ContentOrEmpty(files[j])) >= lim.maxFileSizeBytes
    THEN "fileSize"
    ELSE IF totalSize + ContentSizes(files, k, Len(files)) >= lim.maxTotalSizeBytes
    THEN "totalSize"
    ELSE "ok"

\* The loop of validateTemplate from file k on, then the check of the
\* total: a content over maxFileSizeBytes ends the loop with its own error
ValidateSizes(files, k, totalSize, lim) ==
    IF \E j \in k..Len(files) :
          byteLength(ContentOrEmpty(files[j])) > lim.maxFileSizeBytes
    THEN "fileSize"
    ELSE IF totalSize + ContentSizes(files, k, Len(files)) > lim.maxTotalSizeBytes
    THEN "totalSize"
    ELSE "ok"

\* TemplateProcessor.validateTemplate: "ok", or the limit whose violation
\* is thrown as a TemplateValidationError
validateTemplate(template, lim) ==
    IF Len(template.files) > lim.maxFilesPerTemplate THEN "fileCount"
    ELSE ValidateSizes(template.files, 1, 0, lim)

FolderNameKey == << "f","o","l","d","e","r","N","a","m","e" >>

\* PlanFile without the isSafe check of the resolved path
PlanFile_Unchecked(templateFile, folderName, targetRoot) ==
    LET variables     == (FolderNameKey :> folderName)
        relativePath  == apply(templateFile.path, variables)
        content       == apply(ContentOrEmpty(templateFile), variables)
    IN  IF ~relativePath.ok \/ ~content.ok
        THEN [kind |-> "typeError"]
        ELSE LET sanitizedPath == sanitizePath(relativePath.val)
                 absolutePath  == PathResolve(targetRoot, sanitizedPath)
             IN  [kind |-> "ok",
                  op   |-> [absolutePath |-> absolutePath,
                            relativePath |-> sanitizedPath,
                            content      |-> content.val,
                            templateFile |-> templateFile]]

\* The body of the loop of planFileOperations for one template file: the
\* operation, or the error thrown
PlanFile(templateFile, folderName, targetRoot) ==
    LET variables     == (FolderNameKey :> folderName)
        relativePath  == apply(templateFile.path, variables)
        content       == apply(ContentOrEmpty(templateFile), variables)
    IN  IF ~relativePath.ok \/ ~content.ok
        THEN [kind |-> "typeError"]
        ELSE LET sanitizedPath == sanitizePath(relativePath.val)
                 absolutePath  == PathResolve(targetRoot, sanitizedPath)
             IN  IF ~isSafe(absolutePath, targetRoot)
                 THEN [kind |-> "security"]
                 ELSE [kind |-> "ok",
                       op   |-> [absolutePath |-> absolutePath,
                                 relativePath |-> sanitizedPath,
                                 content      |-> content.val,
                                 templateFile |-> templateFile]]

\* PlanLoop with the operations returned last file first
PlanLoop_Reversed(ctx) ==
    LET files   == ctx.template.files
        results == [k \in 1..Len(files) |->
                      PlanFile(files[k], ctx.folderName, ctx.targetRoot)]
        errors  == { k \in 1..Len(files) : results[k].kind # "ok" }
    IN  IF errors = { }
        THEN [kind |-> "ok",
              ops  |-> [k \in 1..Len(files) |-> results[Len(files) + 1 - k].op]]
        ELSE [kind |-> results[CHOOSE k \in errors : \A j \in errors : k <= j].kind,
              ops  |-> << >>]

\* The loop of planFileOperations: the operations in template order; the
\* first error aborts it and no operation is returned
PlanLoop(ctx) ==
    LET files   == ctx.template.files
        results == [k \in 1..Len(files) |->
                      PlanFile(files[k], ctx.folderName, ctx.targetRoot)]
        errors  == { k \in 1..Len(files) : results[k].kind # "ok" }
    IN  IF errors = { }
        THEN [kind |-> "ok", ops |-> [k \in 1..Len(files) |-> results[k].op]]
        ELSE [kind |-> results[CHOOSE k \in errors : \A j \in errors : k <= j].kind,
              ops  |-> << >>]

\* TemplateProcessor.planFileOperations: [kind |-> "ok", ops |-> ...], or
\* the error thrown: "validation" (TemplateValidationError), "security"
\* (PathSecurityError), "typeError" (thrown inside apply)
planFileOperations(ctx, lim) ==
    IF validateTemplate(ctx.template, lim) # "ok"
    THEN [kind |-> "validation", ops |-> << >>]
    ELSE PlanLoop(ctx)

---------------------------------------------------------------------------
(* utils/pathValidator.ts: validateFolderName *)

\* String.prototype.trim
Trim(s) ==
    LET kept == { k \in DOMAIN s : s[k] \notin Whitespace }
    IN  IF kept = { } THEN << >>
        ELSE SubSeq(s, CHOOSE k \in kept : \A j \in kept : k <= j,
                       CHOOSE k \in kept : \A j \in kept : j <= k)

\* String.prototype.includes
Includes(s, part) ==
    \E i \in 1..(Len(s) - Len(part) + 1) : SubSeq(s, i, i + Len(part) - 1) = part

\* A control character other than tab and line feed
ControlChar == "U+0001"

\* INVALID_CHARS = /[<>:"|?*\x00-\x1F]/
INVALID_CHARS == { "<", ">", ":", "\"", "|", "?", "*", "\t", "\n", ControlChar }

\* String.prototype.toUpperCase
ToUpperCase(s) == [k \in DOMAIN s |-> ToUpper(s[k])]

\* RESERVED_NAMES = /^(CON|PRN|AUX|NUL|COM[0-9]|LPT[0-9])/i, without the
\* end of the pattern
ReservedPrefixEnd(s) ==
    LET u == ToUpperCase(s)
    IN  IF \E n \in { << "C", "O", "N" >>, << "P", "R", "N" >>,
                      << "A", "U", "X" >>, << "N", "U", "L" >> } : StartsWith(u, n)
        THEN 3
        ELSE IF /\ Len(u) >= 4
                /\ SubSeq(u, 1, 3) \in { << "C", "O", "M" >>, << "L", "P", "T" >> }
                /\ u[4] \in Digit
        THEN 4
        ELSE 0

\* RESERVED_NAMES.test(s): a reserved name, then "." or the end of the string
RESERVED_NAMES(s) ==
    /\ ReservedPrefixEnd(s) > 0
    /\ \/ Len(s) = ReservedPrefixEnd(s)
       \/ s[ReservedPrefixEnd(s) + 1] = "."

MAX_PATH_LENGTH == 255

\* validateFolderName_NoTraversalCheck: validateFolderName without the test
\* for ".."
validateFolderName_NoTraversalCheck(folderName) ==
    LET trimmed == Trim(folderName)
    IN  IF trimmed = << >> THEN "empty"
        ELSE IF isAbsolute(trimmed) THEN "absolute"
        ELSE IF "/" \in Range(trimmed) \/ "\\" \in Range(trimmed) THEN "separator"
        ELSE IF Range(trimmed) \cap INVALID_CHARS # { } THEN "invalidChars"
        ELSE IF RESERVED_NAMES(trimmed) THEN "reserved"
        ELSE IF byteLength(trimmed) > MAX_PATH_LENGTH THEN "tooLong"
        ELSE IF trimmed[1] \in { ".", " " } \/ trimmed[Len(trimmed)] \in { ".", " " }
        THEN "dotsOrSpaces"
        ELSE "ok"

\* validateFolderName with the check for separators before the one for ".."
validateFolderName_SeparatorsFirst(folderName) ==
    LET trimmed == Trim(folderName)
    IN  IF trimmed = << >> THEN "empty"
        ELSE IF "/" \in Range(trimmed) \/ "\\" \in Range(trimmed) THEN "separator"
        ELSE IF Includes(trimmed, DotDot) THEN "traversal"
        ELSE IF isAbsolute(trimmed) THEN "absolute"
        ELSE IF Range(trimmed) \cap INVALID_CHARS # { } THEN "invalidChars"
        ELSE IF RESERVED_NAMES(trimmed) THEN "reserved"
        ELSE IF byteLength(trimmed) > MAX_PATH_LENGTH THEN "tooLong"
        ELSE IF trimmed[1] \in { ".", " " } \/ trimmed[Len(trimmed)] \in { ".", " " }
        THEN "dotsOrSpaces"
        ELSE "ok"

\* validateFolderName with its checks made on the name as it was given
validateFolderName_Untrimmed(folderName) ==
    IF Trim(folderName) = << >> THEN "empty"
    ELSE IF Includes(folderName, DotDot) THEN "traversal"
    ELSE IF isAbsolute(folderName) THEN "absolute"
    ELSE IF "/" \in Range(folderName) \/ "\\" \in Range(folderName) THEN "separator"
    ELSE IF Range(folderName) \cap INVALID_CHARS # { } THEN "invalidChars"
    ELSE IF RESERVED_NAMES(folderName) THEN "reserved"
    ELSE IF byteLength(folderName) > MAX_PATH_LENGTH THEN "tooLong"
    ELSE IF folderName[1] \in { ".", " " } \/ folderName[Len(folderName)] \in { ".", " " }
    THEN "dotsOrSpaces"
    ELSE "ok"

\* validateFolderName with a name of MAX_PATH_LENGTH bytes refused
validateFolderName_LengthInclusive(folderName) ==
    LET trimmed == Trim(folderName)
    IN  IF trimmed = << >> THEN "empty"
        ELSE IF Includes(trimmed, DotDot) THEN "traversal"
        ELSE IF isAbsolute(trimmed) THEN "absolute"
        ELSE IF "/" \in Range(trimmed) \/ "\\" \in Range(trimmed) THEN "separator"
        ELSE IF Range(trimmed) \cap INVALID_CHARS # { } THEN "invalidChars"
        ELSE IF RESERVED_NAMES(trimmed) THEN "reserved"
        ELSE IF byteLength(trimmed) >= MAX_PATH_LENGTH THEN "tooLong"
        ELSE IF trimmed[1] \in { ".", " " } \/ trimmed[Len(trimmed)] \in { ".", " " }
        THEN "dotsOrSpaces"
        ELSE "ok"

\* PathValidator.validateFolderName: "ok" for undefined, else which error
\* message is returned
validateFolderName(folderName) ==
    LET trimmed == Trim(folderName)
    IN  IF trimmed = << >> THEN "empty"
        ELSE IF Includes(trimmed, DotDot) THEN "traversal"
        ELSE IF isAbsolute(trimmed) THEN "absolute"
        ELSE IF "/" \in Range(trimmed) \/ "\\" \in Range(trimmed) THEN "separator"
        ELSE IF Range(trimmed) \cap INVALID_CHARS # { } THEN "invalidChars"
        ELSE IF RESERVED_NAMES(trimmed) THEN "reserved"
        ELSE IF byteLength(trimmed) > MAX_PATH_LENGTH THEN "tooLong"
        ELSE IF trimmed[1] \in { ".", " " } \/ trimmed[Len(trimmed)] \in { ".", " " }
        THEN "dotsOrSpaces"
        ELSE "ok"

---------------------------------------------------------------------------
(* commands/createFromTemplate.ts: one run of CreateFromTemplateCommand.execute *)

NoContext == [targetRoot |-> << >>, folderName |-> << >>, template |-> [files |-> << >>]]

NoPlan == [kind |-> "none", ops |-> << >>]

NoSub == [template |-> << >>, variables |-> << >>, result |-> [ok |-> TRUE, val |-> << >>]]

NoCall == [method |-> "none", arg |-> << >>, result |-> "none"]

\* A collaborator call or an output line; i is the operation it is about
\* (0 when it is about none)
Event(ev, i) == [ev |-> ev, i |-> i]

\* What the disk holds at the path of a directory
Directory == << "DIRECTORY" >>

\* createDirectory(dirname(target)) as writeFile calls it: the directory is
\* made if nothing is at its path; the FileExists error is ignored
WithParent(files, target) ==
    IF dirname(target) \in DOMAIN files THEN files
    ELSE [p \in DOMAIN files \cup { dirname(target) } |->
            IF p = dirname(target) THEN Directory ELSE files[p]]

\* vscode.workspace.fs.writeFile can succeed: the parent is a directory and
\* the target is not one
Writable(files, target) ==
    /\ WithParent(files, target)[dirname(target)] = Directory
    /\ target \in DOMAIN files => files[target] # Directory

\* The output line of handleError for what writeFile throws: a
\* vscode.FileSystemError, or another error
WriteErrorLines == { "outFileSystemError", "outUnexpectedError" }

\* ConflictResolution
Resolutions ==
    { [action |-> a, applyToAll |-> b] :
        a \in { "overwrite", "skip", "cancel" }, b \in BOOLEAN }

\* StartWrite without the await: the loop goes on while the write is
\* outstanding
StartWrite_NotAwaited(events) ==
    /\ log' = log \o events \o << Event("writeFile", idx) >>
    /\ outstanding' = (outstanding \ { Event(pc, idx) }) \cup { Event("write", idx) }
    /\ pc' = "loop"

\* The write of operation idx is started: `await this.fs.writeFile(...)`;
\* the call that has just returned (the stat or the prompt) is no longer
\* outstanding
StartWrite(events) ==
    /\ log' = log \o events \o << Event("writeFile", idx) >>
    /\ outstanding' = (outstanding \ { Event(pc, idx) }) \cup { Event("write", idx) }
    /\ pc' = "write"

\* `continue` after a skip, or the end of the loop body: i++
NextOperation ==
    /\ idx' = idx + 1
    /\ outstanding' = outstanding \ { Event(pc, idx) }
    /\ pc' = "loop"

\* EndCancelled that reports the cancellation as an error
EndCancelled_AsError(events) ==
    /\ log' = log \o events \o << Event("outCancelled", 0), Event("showError", 0) >>
    /\ outstanding' = outstanding \ { Event(pc, idx) }
    /\ outcome' = "cancelled"
    /\ pc' = "done"

\* handleError(err) for a UserCancelledError: an output line, no showError
EndCancelled(events) ==
    /\ log' = log \o events \o << Event("outCancelled", 0) >>
    /\ outstanding' = outstanding \ { Event(pc, idx) }
    /\ outcome' = "cancelled"
    /\ pc' = "done"

\* handleError(err) for every other error: an output line that names the
\* kind of error, then showError
EndFailed(events, line) ==
    /\ log' = log \o events \o << Event(line, 0), Event("showError", 0) >>
    /\ outstanding' = outstanding \ { Event(pc, idx) }
    /\ outcome' = "failed"
    /\ pc' = "done"

\* EndNoInput that reports the missing input as an error
EndNoInput_AsError(events) ==
    /\ log' = log \o events \o << Event("outNotice", 0), Event("showError", 0) >>
    /\ outcome' = "noInput"
    /\ pc' = "done"

\* gatherInputs returned null: the informational notice, nothing else
EndNoInput(events) ==
    /\ log' = log \o events \o << Event("outNotice", 0) >>
    /\ outcome' = "noInput"
    /\ pc' = "done"

\* execute() up to the return of gatherInputs: the target directory, the
\* folder name and the template the user gives, or a cancellation
GatherInputs(targetBases, folderNames, templates) ==
    /\ pc = "start"
    /\ UNCHANGED << limits, plan, idx, conflictPolicy, created, disk, disk0,
                    cancelRequested, outstanding, runs, sub, call >>
    /\ \/ /\ EndNoInput(<< Event("showWarning", 0) >>)
          /\ UNCHANGED context
       \/ /\ EndNoInput(<< Event("promptForFolderName", 0) >>)
          /\ UNCHANGED context
       \/ /\ EndNoInput(<< Event("promptForFolderName", 0),
                           Event("selectTemplate", 0) >>)
          /\ UNCHANGED context
       \/ \E targetBase \in targetBases, folderName \in folderNames,
             template \in templates :
             /\ context' = [targetRoot |-> PathJoin(targetBase, folderName),
                            folderName |-> folderName,
                            template   |-> template]
             /\ log' = log \o << Event("promptForFolderName", 0),
                                 Event("selectTemplate", 0) >>
             /\ pc' = "plan"
             /\ UNCHANGED outcome

\* The output line of handleError for an error thrown by planFileOperations
PlanErrorLine(kind) ==
    IF kind = "security" THEN "outSecurityError"
    ELSE IF kind = "validation" THEN "outTemplateError"
    ELSE "outUnexpectedError"

\* Plan with the policy left as the last run set it
Plan_PolicyKept ==
    /\ pc = "plan"
    /\ plan' = planFileOperations(context, limits)
    /\ UNCHANGED << limits, context, disk, disk0, cancelRequested, runs, sub, call >>
    /\ IF plan'.kind = "ok"
       THEN /\ created' = << >>
            /\ conflictPolicy' = IF conflictPolicy = "none" THEN "ask"
                                                            ELSE conflictPolicy
            /\ idx' = 1
            /\ log' = Append(log, Event("planned", 0))
            /\ pc' = "loop"
            /\ UNCHANGED << outstanding, outcome >>
       ELSE /\ EndFailed(<< >>, PlanErrorLine(plan'.kind))
            /\ UNCHANGED << idx, conflictPolicy, created >>

\* Plan with the existence check of the first file made before the error
\* of planFileOperations is handled
Plan_StatBeforeError ==
    /\ pc = "plan"
    /\ plan' = planFileOperations(context, limits)
    /\ UNCHANGED << limits, context, disk, disk0, cancelRequested, runs, sub, call >>
    /\ IF plan'.kind = "ok"
       THEN /\ created' = << >>
            /\ conflictPolicy' = "ask"
            /\ idx' = 1
            /\ log' = Append(log, Event("planned", 0))
            /\ pc' = "loop"
            /\ UNCHANGED << outstanding, outcome >>
       ELSE /\ EndFailed(<< Event("stat", 1) >>, PlanErrorLine(plan'.kind))
            /\ UNCHANGED << idx, conflictPolicy, created >>

\* Step 2 of execute(): planFileOperations; an error goes to handleError,
\* else executeOperations starts with an empty result and the policy "ask"
Plan ==
    /\ pc = "plan"
    /\ plan' = planFileOperations(context, limits)
    /\ UNCHANGED << limits, context, disk, disk0, cancelRequested, runs, sub, call >>
    /\ IF plan'.kind = "ok"
       THEN /\ created' = << >>
            /\ conflictPolicy' = "ask"
            /\ idx' = 1
            /\ log' = Append(log, Event("planned", 0))
            /\ pc' = "loop"
            /\ UNCHANGED << outstanding, outcome >>
       ELSE /\ EndFailed(<< >>, PlanErrorLine(plan'.kind))
            /\ UNCHANGED << idx, conflictPolicy, created >>

\* showResults without the test for an empty result
ShowResults_AlwaysSuccess ==
    /\ log' = Append(log, Event("showSuccess", 0))
    /\ outcome' = "completed"
    /\ pc' = "done"

\* showResults(created)
ShowResults ==
    /\ log' = Append(log, Event(IF created = << >> THEN "showWarning"
                                                  ELSE "showSuccess", 0))
    /\ outcome' = "completed"
    /\ pc' = "done"

\* LoopHead without the check of the cancellation token
LoopHead_TokenIgnored ==
    /\ pc = "loop"
    /\ UNCHANGED << limits, context, plan, idx, conflictPolicy, created, disk,
                    disk0, cancelRequested, runs, sub, call >>
    /\ IF idx > Len(plan.ops)
       THEN /\ ShowResults
            /\ UNCHANGED outstanding
       ELSE /\ log' = Append(log, Event("stat", idx))
            /\ outstanding' = outstanding \cup { Event("stat", idx) }
            /\ pc' = "stat"
            /\ UNCHANGED outcome

\* The head of the loop of executeOperations: the loop condition, the check
\* of the cancellation token, then the existence check is started
LoopHead ==
    /\ pc = "loop"
    /\ UNCHANGED << limits, context, plan, idx, conflictPolicy, created, disk,
                    disk0, cancelRequested, runs, sub, call >>
    /\ IF idx > Len(plan.ops)
       THEN /\ ShowResults
            /\ UNCHANGED outstanding
       ELSE IF cancelRequested
       THEN EndCancelled(<< >>)
       ELSE /\ log' = Append(log, Event("stat", idx))
            /\ outstanding' = outstanding \cup { Event("stat", idx) }
            /\ pc' = "stat"
            /\ UNCHANGED outcome

\* fs.stat returns; a conflict is resolved by the policy, or the user is asked
StatReturns ==
    /\ pc = "stat"
    /\ UNCHANGED << limits, context, plan, conflictPolicy, created, disk,
                    disk0, cancelRequested, outcome, runs, sub, call >>
    /\ LET exists == plan.ops[idx].absolutePath \in DOMAIN disk
       IN  IF ~exists
           THEN /\ StartWrite(<< Event("statMissing", idx) >>)
                /\ UNCHANGED idx
           ELSE IF conflictPolicy = "overwrite"
           THEN /\ StartWrite(<< Event("statExists", idx) >>)
                /\ UNCHANGED idx
           ELSE IF conflictPolicy = "skip"
           THEN /\ log' = log \o << Event("statExists", idx),
                                   Event("outSkipped", idx) >>
                /\ NextOperation
           ELSE /\ log' = log \o << Event("statExists", idx),
                                   Event("promptForConflictResolution", idx) >>
                /\ outstanding' = (outstanding \ { Event("stat", idx) })
                                   \cup { Event("prompt", idx) }
                /\ pc' = "prompt"
                /\ UNCHANGED idx

\* PromptReturns with applyToAll ignored: the policy stays as it is
PromptReturns_NoUpgrade ==
    /\ pc = "prompt"
    /\ UNCHANGED << limits, context, plan, created, disk, disk0, cancelRequested,
                    runs, sub, call, conflictPolicy >>
    /\ \E resolution \in Resolutions :
          IF resolution.action = "cancel"
          THEN /\ EndCancelled(<< Event("resolvedCancel", idx) >>)
               /\ UNCHANGED idx
          ELSE IF resolution.action = "skip"
          THEN /\ log' = log \o << Event(IF resolution.applyToAll
                                         THEN "resolvedSkipAll"
                                         ELSE "resolvedSkip", idx),
                                   Event("outSkipped", idx) >>
               /\ NextOperation
               /\ UNCHANGED outcome
          ELSE /\ StartWrite(<< Event(IF resolution.applyToAll
                                      THEN "resolvedOverwriteAll"
                                      ELSE "resolvedOverwrite", idx) >>)
               /\ UNCHANGED << idx, outcome >>

\* promptForConflictResolution returns the user's resolution
PromptReturns ==
    /\ pc = "prompt"
    /\ UNCHANGED << limits, context, plan, created, disk, disk0, cancelRequested,
                    runs, sub, call >>
    /\ \E resolution \in Resolutions :
          IF resolution.action = "cancel"
          THEN /\ EndCancelled(<< Event("resolvedCancel", idx) >>)
               /\ UNCHANGED << idx, conflictPolicy >>
          ELSE IF resolution.action = "skip"
          THEN /\ log' = log \o << Event(IF resolution.applyToAll
                                         THEN "resolvedSkipAll"
                                         ELSE "resolvedSkip", idx),
                                   Event("outSkipped", idx) >>
               /\ conflictPolicy' = IF resolution.applyToAll THEN "skip"
                                                             ELSE conflictPolicy
               /\ NextOperation
               /\ UNCHANGED outcome
          ELSE /\ conflictPolicy' = IF resolution.applyToAll THEN "overwrite"
                                                             ELSE conflictPolicy
               /\ StartWrite(<< Event(IF resolution.applyToAll
                                      THEN "resolvedOverwriteAll"
                                      ELSE "resolvedOverwrite", idx) >>)
               /\ UNCHANGED << idx, outcome >>

\* WriteReturns with the path put at the front of the result
WriteReturns_Prepended ==
    /\ pc = "write"
    /\ UNCHANGED << limits, context, plan, conflictPolicy, disk0,
                    cancelRequested, runs, sub, call >>
    /\ LET operation == plan.ops[idx]
           target    == operation.absolutePath
       IN  \/ /\ Writable(disk, target)
              /\ disk' = [p \in DOMAIN WithParent(disk, target) \cup { target } |->
                            IF p = target THEN operation.content
                            ELSE WithParent(disk, target)[p]]
              /\ created' = << target >> \o created
              /\ log' = Append(log, Event("outCreated", idx))
              /\ NextOperation
              /\ UNCHANGED outcome
           \/ \E line \in WriteErrorLines,
                 files \in { disk, WithParent(disk, target) } :
                 /\ EndFailed(<< Event("writeFailed", idx) >>, line)
                 /\ disk' = files
                 /\ UNCHANGED << idx, created >>

\* WriteReturns with a rollback: a failed write restores the files of the
\* start of the run
WriteReturns_Rollback ==
    /\ pc = "write"
    /\ UNCHANGED << limits, context, plan, conflictPolicy, disk0,
                    cancelRequested, runs, sub, call >>
    /\ LET operation == plan.ops[idx]
           target    == operation.absolutePath
       IN  \/ /\ Writable(disk, target)
              /\ disk' = [p \in DOMAIN WithParent(disk, target) \cup { target } |->
                            IF p = target THEN operation.content
                            ELSE WithParent(disk, target)[p]]
              /\ created' = Append(created, target)
              /\ log' = Append(log, Event("outCreated", idx))
              /\ NextOperation
              /\ UNCHANGED outcome
           \/ \E line \in WriteErrorLines :
                 /\ EndFailed(<< Event("writeFailed", idx) >>, line)
                 /\ disk' = disk0
                 /\ UNCHANGED << idx, created >>

\* fs.writeFile returns: the parent directory exists, the file holds the
\* planned content and its path is appended to the result; or it throws,
\* with the parent directory made or not, and handleError reports the error
WriteReturns ==
    /\ pc = "write"
    /\ UNCHANGED << limits, context, plan, conflictPolicy, disk0,
                    cancelRequested, runs, sub, call >>
    /\ LET operation == plan.ops[idx]
           target    == operation.absolutePath
       IN  \/ /\ Writable(disk, target)
              /\ disk' = [p \in DOMAIN WithParent(disk, target) \cup { target } |->
                            IF p = target THEN operation.content
                            ELSE WithParent(disk, target)[p]]
              /\ created' = Append(created, target)
              /\ log' = Append(log, Event("outCreated", idx))
              /\ NextOperation
              /\ UNCHANGED outcome
           \/ \E line \in WriteErrorLines,
                 files \in { disk, WithParent(disk, target) } :
                 /\ EndFailed(<< Event("writeFailed", idx) >>, line)
                 /\ disk' = files
                 /\ UNCHANGED << idx, created >>

\* The user presses Cancel on the progress notification
RequestCancel ==
    /\ pc \in { "loop", "stat", "prompt", "write" }
    /\ ~cancelRequested
    /\ cancelRequested' = TRUE
    /\ UNCHANGED << pc, limits, context, plan, idx, conflictPolicy, created,
                    disk, disk0, outstanding, log, outcome, runs, sub, call >>

\* execute() is invoked again (the command is run once more); the locals
\* of the finished run are gone, the files on disk stay
ExecuteAgain ==
    /\ pc = "done"
    /\ runs < MaxRuns
    /\ runs' = runs + 1
    /\ pc' = "start"
    /\ context' = NoContext
    /\ plan' = NoPlan
    /\ idx' = 0
    /\ created' = << >>
    /\ cancelRequested' = FALSE
    /\ outstanding' = { }
    /\ log' = << >>
    /\ outcome' = "none"
    /\ disk0' = disk
    /\ UNCHANGED << limits, conflictPolicy, disk, sub, call >>

---------------------------------------------------------------------------
(* The runs that are checked *)

\* All sequences over S of length at most n
SeqsUpTo(S, n) == UNION { [1..k -> S] : k \in 0..n }

\* uri.fsPath: the directory the command is invoked on
TargetBases == { << "/", "w" >> }

\* What promptForFolderName returns.  VSCodeUIService validates the name;
\* IUIService does not promise it, and MockUIService returns any string.
ExecFolderNames == { << "A" >>, << "A", "/" >> }

OldContent == << "o", "l", "d" >>

ExecFiles ==
    { File(<< "a" >>, << "x" >>),
      File(<< "b" >>, << "y" >>),
      FileNoContent(DotDot) }

ExecTemplates == { [files |-> f] : f \in SeqsUpTo(ExecFiles, MaxFiles) }

\* The limits of the injected TemplateProcessor: the defaults, or custom ones
ExecLimits ==
    { DEFAULT_LIMITS,
      [maxFilesPerTemplate |-> 2, maxFileSizeBytes |-> 1, maxTotalSizeBytes |-> 1] }

\* The files that may exist in the target folder before the first run
DiskPaths ==
    { << "/", "w", "/", "A", "/", "a" >>,
      << "/", "w", "/", "A", "/", "b" >> }

TargetFolder == << "/", "w", "/", "A" >>

\* The disk before the first run: the workspace directory; the target
\* folder is missing, or a file, or a directory with some of the files
InitialDisks ==
    LET base == [p \in TargetBases |-> Directory]
    IN  { base, base @@ (TargetFolder :> OldContent) }
        \cup { base @@ (TargetFolder :> Directory) @@ [p \in S |-> OldContent] :
                 S \in SUBSET DiskPaths }

Init ==
    /\ pc = "start"
    /\ limits \in ExecLimits
    /\ context = NoContext
    /\ plan = NoPlan
    /\ idx = 0
    /\ conflictPolicy = "none"
    /\ created = << >>
    /\ disk \in InitialDisks
    /\ disk0 = disk
    /\ cancelRequested = FALSE
    /\ outstanding = { }
    /\ log = << >>
    /\ outcome = "none"
    /\ runs = 1
    /\ sub = NoSub
    /\ call = NoCall

Next ==
    \/ GatherInputs(TargetBases, ExecFolderNames, ExecTemplates)
    \/ Plan
    \/ LoopHead
    \/ StatReturns
    \/ PromptReturns
    \/ WriteReturns
    \/ RequestCancel
    \/ ExecuteAgain

Spec == Init /\ [][Next]_vars

---------------------------------------------------------------------------
(* The runs on templates with path traversal *)

\* "../a"
ParentPath == << ".", ".", "/", "a" >>

\* The files of the templates: one whose path leaves the target folder, and
\* a plain one
TraversalFiles ==
    { File(ParentPath, << "e", "v", "i", "l" >>),
      File(<< "a" >>, << "x" >>) }

TraversalTemplates == { [files |-> f] : f \in SeqsUpTo(TraversalFiles, MaxFiles) }

NextTraversal ==
    \/ GatherInputs(TargetBases, ExecFolderNames, TraversalTemplates)
    \/ Plan
    \/ LoopHead
    \/ StatReturns
    \/ PromptReturns
    \/ WriteReturns
    \/ RequestCancel
    \/ ExecuteAgain

SpecTraversal == Init /\ [][NextTraversal]_vars

---------------------------------------------------------------------------
(* planFileOperations on its own *)

\* The call processor.planFileOperations(context)
PlanCall ==
    /\ pc = "planCall"
    /\ plan' = planFileOperations(context, limits)
    /\ pc' = "planReturned"
    /\ UNCHANGED << limits, context, idx, conflictPolicy, created, disk, disk0,
                    cancelRequested, outstanding, log, outcome, runs, sub, call >>

PlanTargetRoots ==
    { << "/", "w", "/", "A" >>,
      << "/", "w", "/", "A", "/" >>,
      << "/" >> }

PlanFolderNames ==
    { << "M", "y", "C" >>,
      << ".", ".", "/", "e" >>,
      << "a", "/" >> }

TraversalPath ==
    << ".", ".", "/", ".", ".", "/", ".", ".", "/",
       "e", "t", "c", "/", "p", "a", "s", "s", "w", "d" >>

FolderNameToken == << "$", "{" >> \o FolderNameKey \o << "}" >>

FolderNameKebabToken ==
    << "$", "{" >> \o FolderNameKey
    \o << "|", "k", "e", "b", "a", "b", "C", "a", "s", "e", "}" >>

ConstructorToken ==
    << "$", "{", "c", "o", "n", "s", "t", "r", "u", "c", "t", "o", "r", "}" >>

PlanFiles ==
    { File(<< "a" >>, << "x" >>),
      File(<< "b" >>, << EAcute, "x" >>),
      File(TraversalPath, << >>),
      FileNoContent(<< "/", "e" >>),
      FileNoContent(<< ".", ".", "/", ".", "." >>),
      File(FolderNameToken, FolderNameKebabToken),
      File(<< "a", "\\", ".", ".", "\\", "b" >>, << "x", "y" >>),
      File(ConstructorToken, << "x" >>) }

\* n copies of one small file: a template at, or just over, the default
\* file count
ManyFiles(n) == [files |-> [k \in 1..n |-> File(<< "a" >>, << "x" >>)]]

PlanTemplates ==
    { [files |-> f] : f \in SeqsUpTo(PlanFiles, MaxPlanFiles) }
    \cup { ManyFiles(DEFAULT_LIMITS.maxFilesPerTemplate),
           ManyFiles(DEFAULT_LIMITS.maxFilesPerTemplate + 1) }

PlanLimits ==
    { DEFAULT_LIMITS }
    \cup { [maxFilesPerTemplate |-> m, maxFileSizeBytes |-> b, maxTotalSizeBytes |-> t] :
             m \in { 1, 2 }, b \in { 2, 3 }, t \in { 3, 4 } }

InitPlan ==
    /\ pc = "planCall"
    /\ limits \in PlanLimits
    /\ context \in { [targetRoot |-> r, folderName |-> n, template |-> t] :
                       r \in PlanTargetRoots, n \in PlanFolderNames,
                       t \in PlanTemplates }
    /\ plan = NoPlan
    /\ idx = 0
    /\ conflictPolicy = "none"
    /\ created = << >>
    /\ disk = << >>
    /\ disk0 = << >>
    /\ cancelRequested = FALSE
    /\ outstanding = { }
    /\ log = << >>
    /\ outcome = "none"
    /\ runs = 0
    /\ sub = NoSub
    /\ call = NoCall

NextPlan == PlanCall

SpecPlan == InitPlan /\ [][NextPlan]_vars

---------------------------------------------------------------------------
(* VariableSubstitution.apply on its own *)

\* The call substitution.apply(template, variables)
ApplyCall ==
    /\ pc = "applyCall"
    /\ sub' = [sub EXCEPT !.result = apply(sub.template, sub.variables)]
    /\ pc' = "applyReturned"
    /\ UNCHANGED << limits, context, plan, idx, conflictPolicy, created, disk,
                    disk0, cancelRequested, outstanding, log, outcome, runs, call >>

Outer == << "o", "u", "t", "e", "r" >>

Inner == << "i", "n", "n", "e", "r" >>

Leaked == << "l", "e", "a", "k", "e", "d" >>

\* The pieces the templates are put together from
ApplyPieces ==
    { << "$", "{" >>, Outer, Inner, << "}" >>,
      << "|", "c", "a", "m", "e", "l", "C", "a", "s", "e" >>, << "x" >> }

RECURSIVE Concat(_)
Concat(pieces) ==
    IF pieces = << >> THEN << >> ELSE Head(pieces) \o Concat(Tail(pieces))

ApplyTemplates == { Concat(ps) : ps \in SeqsUpTo(ApplyPieces, MaxPieces) }

ApplyValues ==
    { Leaked,
      << "$", "{" >> \o Inner \o << "}" >>,
      << "$", "{" >> \o Outer \o << "}" >>,
      << "a", "-", "b" >> }

ApplyVariables ==
    UNION { [names -> ApplyValues] : names \in SUBSET { Outer, Inner } }

InitApply ==
    /\ pc = "applyCall"
    /\ sub \in { [template |-> t, variables |-> v, result |-> NoSub.result] :
                   t \in ApplyTemplates, v \in ApplyVariables }
    /\ limits = DEFAULT_LIMITS
    /\ context = NoContext
    /\ plan = NoPlan
    /\ idx = 0
    /\ conflictPolicy = "none"
    /\ created = << >>
    /\ disk = << >>
    /\ disk0 = << >>
    /\ cancelRequested = FALSE
    /\ outstanding = { }
    /\ log = << >>
    /\ outcome = "none"
    /\ runs = 0
    /\ call = NoCall

NextApply == ApplyCall

SpecApply == InitApply /\ [][NextApply]_vars

---------------------------------------------------------------------------
(* The methods of PathValidator on their own *)

\* The call pathValidator.validateFolderName(folderName)
ValidateFolderNameCall ==
    /\ pc = "validateCall"
    /\ call' = [call EXCEPT !.result = validateFolderName(call.arg)]
    /\ pc' = "validateReturned"
    /\ UNCHANGED << limits, context, plan, idx, conflictPolicy, created, disk,
                    disk0, cancelRequested, outstanding, log, outcome, runs, sub >>

\* The call pathValidator.sanitizePath(relativePath)
SanitizePathCall ==
    /\ pc = "sanitizeCall"
    /\ call' = [call EXCEPT !.result = sanitizePath(call.arg)]
    /\ pc' = "sanitizeReturned"
    /\ UNCHANGED << limits, context, plan, idx, conflictPolicy, created, disk,
                    disk0, cancelRequested, outstanding, log, outcome, runs, sub >>

\* The characters the short arguments are made of
ArgChars == { "a", "C", "O", "N", ".", " ", "/", "\\", "<", "\t" }

ShortArgs == SeqsUpTo(ArgChars, MaxArgLen)

\* n times the character "a"
Long(n) == [k \in 1..n |-> "a"]

\* Reserved names in both cases, and names at and over MAX_PATH_LENGTH bytes
OtherFolderNames ==
    { << "c", "o", "n" >>, << "C", "o", "m", "1" >>, << "C", "O", "M", "a" >>,
      << "L", "P", "T", "9", ".", "a" >>, << "N", "U", "L", "." >>,
      << "a", ControlChar, "a" >>,
      Long(MAX_PATH_LENGTH), Long(MAX_PATH_LENGTH + 1),
      Long(MAX_PATH_LENGTH - 1) \o << EAcute >>,
      Long(MAX_PATH_LENGTH - 2) \o << EAcute >>,
      << " " >> \o Long(MAX_PATH_LENGTH) }

InitValidator ==
    /\ \/ /\ pc = "validateCall"
          /\ call \in { [method |-> "validateFolderName", arg |-> a, result |-> "none"] :
                          a \in ShortArgs \cup OtherFolderNames }
       \/ /\ pc = "sanitizeCall"
          /\ call \in { [method |-> "sanitizePath", arg |-> a, result |-> "none"] :
                          a \in ShortArgs }
    /\ limits = DEFAULT_LIMITS
    /\ context = NoContext
    /\ plan = NoPlan
    /\ idx = 0
    /\ conflictPolicy = "none"
    /\ created = << >>
    /\ disk = << >>
    /\ disk0 = << >>
    /\ cancelRequested = FALSE
    /\ outstanding = { }
    /\ log = << >>
    /\ outcome = "none"
    /\ runs = 0
    /\ sub = NoSub

NextValidator ==
    \/ ValidateFolderNameCall
    \/ SanitizePathCall

SpecValidator == InitValidator /\ [][NextValidator]_vars

---------------------------------------------------------------------------
(* PathValidator.isSafe on its own *)

\* The call pathValidator.isSafe(resolvedPath, targetRoot)
IsSafeCall ==
    /\ pc = "isSafeCall"
    /\ call' = [call EXCEPT !.result = isSafe(call.arg, call.targetRoot)]
    /\ pc' = "isSafeReturned"
    /\ UNCHANGED << limits, context, plan, idx, conflictPolicy, created, disk,
                    disk0, cancelRequested, outstanding, log, outcome, runs, sub >>

\* The characters the paths are made of
PathChars == { "a", "b", "/", "." }

\* Absolute paths, normalized or not
AbsolutePaths == { << "/" >> \o p : p \in SeqsUpTo(PathChars, MaxPathLen) }

InitIsSafe ==
    /\ pc = "isSafeCall"
    /\ call \in { [method |-> "isSafe", arg |-> p, targetRoot |-> r, result |-> "none"] :
                    p \in AbsolutePaths, r \in AbsolutePaths }
    /\ limits = DEFAULT_LIMITS
    /\ context = NoContext
    /\ plan = NoPlan
    /\ idx = 0
    /\ conflictPolicy = "none"
    /\ created = << >>
    /\ disk = << >>
    /\ disk0 = << >>
    /\ cancelRequested = FALSE
    /\ outstanding = { }
    /\ log = << >>
    /\ outcome = "none"
    /\ runs = 0
    /\ sub = NoSub

NextIsSafe == IsSafeCall

SpecIsSafe == InitIsSafe /\ [][NextIsSafe]_vars

---------------------------------------------------------------------------
(* The case transforms on their own *)

\* The call toKebab(input)
ToKebabCall ==
    /\ pc = "caseCall"
    /\ call.method = "toKebab"
    /\ call' = [call EXCEPT !.result = toKebab(call.arg)]
    /\ pc' = "caseReturned"
    /\ UNCHANGED << limits, context, plan, idx, conflictPolicy, created, disk,
                    disk0, cancelRequested, outstanding, log, outcome, runs, sub >>

\* The call toCamel(input)
ToCamelCall ==
    /\ pc = "caseCall"
    /\ call.method = "toCamel"
    /\ call' = [call EXCEPT !.result = toCamel(call.arg)]
    /\ pc' = "caseReturned"
    /\ UNCHANGED << limits, context, plan, idx, conflictPolicy, created, disk,
                    disk0, cancelRequested, outstanding, log, outcome, runs, sub >>

\* The call toPascal(input)
ToPascalCall ==
    /\ pc = "caseCall"
    /\ call.method = "toPascal"
    /\ call' = [call EXCEPT !.result = toPascal(call.arg)]
    /\ pc' = "caseReturned"
    /\ UNCHANGED << limits, context, plan, idx, conflictPolicy, created, disk,
                    disk0, cancelRequested, outstanding, log, outcome, runs, sub >>

\* The characters the short inputs are made of: letters of both cases, a
\* digit, the separators, a line break, and a character that is none of these
CaseChars == { "a", "b", "B", "C", "1", "-", "_", " ", "\n", "." }

\* The inputs of the round-trip test, and one with an acronym
CaseTestInputs ==
    { << "m", "y", "C", "o", "m", "p", "o", "n", "e", "n", "t" >>,
      << "U", "s", "e", "r", "P", "r", "o", "f", "i", "l", "e" >>,
      << "t", "o", "d", "o", "-", "l", "i", "s", "t" >>,
      << "a", "p", "i", "_", "c", "l", "i", "e", "n", "t" >>,
      << "N", "a", "v", "i", "g", "a", "t", "i", "o", "n", " ", "B", "a", "r" >>,
      << "X", "M", "L", "H", "t", "t", "p", "R", "e", "q", "u", "e", "s", "t" >> }

CaseInputs == SeqsUpTo(CaseChars, MaxCaseLen) \cup CaseTestInputs

InitCase ==
    /\ pc = "caseCall"
    /\ call \in { [method |-> m, arg |-> x, result |-> "none"] :
                    m \in { "toKebab", "toCamel", "toPascal" }, x \in CaseInputs }
    /\ limits = DEFAULT_LIMITS
    /\ context = NoContext
    /\ plan = NoPlan
    /\ idx = 0
    /\ conflictPolicy = "none"
    /\ created = << >>
    /\ disk = << >>
    /\ disk0 = << >>
    /\ cancelRequested = FALSE
    /\ outstanding = { }
    /\ log = << >>
    /\ outcome = "none"
    /\ runs = 0
    /\ sub = NoSub

NextCase ==
    \/ ToKebabCall
    \/ ToCamelCall
    \/ ToPascalCall

SpecCase == InitCase /\ [][NextCase]_vars

---------------------------------------------------------------------------
(* planFileOperations on templates whose contents hold variables *)

\* Folder names shorter than, as long as, and longer than "${folderName}"
SizeFolderNames ==
    { << "M", "y", "C" >>, Long(Len(FolderNameToken)),
      Long(Len(FolderNameToken) + 1), Long(Len(FolderNameToken) + 2) }

\* Files whose content is a variable, a variable and one more byte, or one
\* byte
SizeFiles ==
    { File(<< "a" >>, FolderNameToken),
      File(<< "b" >>, FolderNameToken \o << "x" >>),
      File(<< "c" >>, << "x" >>) }

SizeTemplates == { [files |-> f] : f \in SeqsUpTo(SizeFiles, MaxPlanFiles) }

\* The defaults, and limits of the constructor near the sizes of the files
SizeLimits ==
    { DEFAULT_LIMITS }
    \cup { [maxFilesPerTemplate |-> DEFAULT_LIMITS.maxFilesPerTemplate,
            maxFileSizeBytes    |-> b,
            maxTotalSizeBytes   |-> t] :
             b \in { Len(FolderNameToken), Len(FolderNameToken) + 1 },
             t \in { Len(FolderNameToken) + 1, 2 * Len(FolderNameToken) + 2 } }

InitPlanSizes ==
    /\ pc = "planCall"
    /\ limits \in SizeLimits
    /\ context \in { [targetRoot |-> TargetFolder, folderName |-> n, template |-> t] :
                       n \in SizeFolderNames, t \in SizeTemplates }
    /\ plan = NoPlan
    /\ idx = 0
    /\ conflictPolicy = "none"
    /\ created = << >>
    /\ disk = << >>
    /\ disk0 = << >>
    /\ cancelRequested = FALSE
    /\ outstanding = { }
    /\ log = << >>
    /\ outcome = "none"
    /\ runs = 0
    /\ sub = NoSub
    /\ call = NoCall

NextPlanSizes == PlanCall

SpecPlanSizes == InitPlanSizes /\ [][NextPlanSizes]_vars

---------------------------------------------------------------------------
(* Properties of planFileOperations, checked under SpecPlan *)

PlanReturnedOk == pc = "planReturned" /\ plan.kind = "ok"

\* C1: whatever the template, the folder name and the absolute target root,
\* every operation that planFileOperations returns satisfies
\* isSafe(op.absolutePath, targetRoot); no returned plan holds an operation
\* that fails the check.
C1_PlannedOperationsAreSafe ==
    PlanReturnedOk =>
        \A k \in 1..Len(plan.ops) :
            isSafe(plan.ops[k].absolutePath, context.targetRoot)

\* A plan is returned for a template whose first path is
\* "../../../etc/passwd": the second operation is at the sanitized path
C1_Witness ==
    /\ PlanReturnedOk
    /\ Len(plan.ops) = 2
    /\ context.template.files[1].path = TraversalPath
    /\ plan.ops[1].relativePath = << "e", "t", "c", "/", "p", "a", "s", "s", "w", "d" >>

\* The segments of a normalized path
Segments(p) == SelectSeq(Split(PathNormalize(p), { "/" }), LAMBDA seg : seg # << >>)

\* p is below root, segment by segment, and is not root itself
IsStrictDescendant(p, root) ==
    /\ Len(Segments(p)) > Len(Segments(root))
    /\ SubSeq(Segments(p), 1, Len(Segments(root))) = Segments(root)

\* C2: for every template path (traversal paths, absolute paths, paths made
\* of dots and separators only) and every folder name, each planned operation
\* has a non-empty relativePath and an absolutePath that is a descendant of
\* targetRoot, segment by segment: not targetRoot itself, not a sibling.
C2_PlannedPathsStrictlyUnderRoot ==
    PlanReturnedOk =>
        \A k \in 1..Len(plan.ops) :
            /\ plan.ops[k].relativePath # << >>
            /\ IsStrictDescendant(plan.ops[k].absolutePath, context.targetRoot)

RECURSIVE SumBytes(_)
SumBytes(files) ==
    IF files = << >> THEN 0
    ELSE IF Len(files) = 1 THEN byteLength(ContentOrEmpty(files[1]))
    ELSE SumBytes(SubSeq(files, 1, Len(files) \div 2))
         + SumBytes(SubSeq(files, Len(files) \div 2 + 1, Len(files)))

\* The template is over one of the limits
ExceedsLimits(template, lim) ==
    \/ Len(template.files) > lim.maxFilesPerTemplate
    \/ \E k \in 1..Len(template.files) :
          byteLength(ContentOrEmpty(template.files[k])) > lim.maxFileSizeBytes
    \/ SumBytes(template.files) > lim.maxTotalSizeBytes

\* C7: planFileOperations throws TemplateValidationError, and returns no
\* operation, exactly when the template has more files than
\* maxFilesPerTemplate, or a content longer than maxFileSizeBytes in UTF-8
\* bytes, or contents whose byte lengths add up to more than
\* maxTotalSizeBytes; a template exactly at the limits is accepted.  The
\* limits are those of the constructor, by default 100 files, 10 MB, 100 MB.
C7_ValidationErrorExactlyOverLimits ==
    /\ DEFAULT_LIMITS = [maxFilesPerTemplate |-> 100,
                         maxFileSizeBytes    |-> 10485760,
                         maxTotalSizeBytes   |-> 104857600]
    /\ pc = "planReturned" =>
          /\ plan.kind = "validation" <=> ExceedsLimits(context.template, limits)
          /\ plan.kind = "validation" => plan.ops = << >>

\* A template exactly at each of the three limits is planned
C7_Witness ==
    /\ PlanReturnedOk
    /\ Len(context.template.files) = limits.maxFilesPerTemplate
    /\ \E k \in 1..Len(context.template.files) :
          byteLength(ContentOrEmpty(context.template.files[k])) = limits.maxFileSizeBytes
    /\ SumBytes(context.template.files) = limits.maxTotalSizeBytes
    /\ Len(plan.ops) = Len(context.template.files)

---------------------------------------------------------------------------
(* Properties of VariableSubstitution.apply, checked under SpecApply *)

OuterToken == << "$", "{" >> \o Outer \o << "}" >>

InnerToken == << "$", "{" >> \o Inner \o << "}" >>

\* s holds part as a substring
Contains(s, part) ==
    \E i \in 1..(Len(s) - Len(part) + 1) : SubSeq(s, i, i + Len(part) - 1) = part

\* The variable maps that differ from `variables` at most in the value, or
\* the presence, of `name`
Variants(variables, name) ==
    { [n \in DOMAIN variables \cup { name } |->
          IF n = name THEN v ELSE variables[n]] : v \in ApplyValues }
    \cup { [n \in DOMAIN variables \ { name } |-> variables[n]] }

\* C3: apply makes one pass over the template, and a substituted value that
\* holds a token is not expanded.  The result does not depend on the value
\* of a variable whose name is in no well-formed token of the template:
\* apply("${outer}", {outer: "${inner}", inner: v}) is the same for every v
\* and never holds the value "leaked" of inner.
C3_SinglePass ==
    pc = "applyReturned" =>
        /\ \A name \in { Outer, Inner } \ extractVariableNames(sub.template) :
              \A variant \in Variants(sub.variables, name) :
                  apply(sub.template, variant) = sub.result
        /\ (/\ sub.template = OuterToken
            /\ Outer \in DOMAIN sub.variables
            /\ sub.variables[Outer] = InnerToken)
           => /\ sub.result.ok
              /\ sub.result.val = << "\\", "\\" >> \o InnerToken
              /\ ~Contains(sub.result.val, Leaked)

\* apply("${outer}", {outer: "${inner}", inner: "leaked"}) has returned
C3_Witness ==
    /\ pc = "applyReturned"
    /\ sub.template = OuterToken
    /\ sub.variables = (Outer :> InnerToken @@ Inner :> Leaked)
    /\ sub.result = [ok |-> TRUE, val |-> << "\\", "\\" >> \o InnerToken]

---------------------------------------------------------------------------
(* Properties of execute, checked under Spec *)

LogHas(ev) == \E k \in 1..Len(log) : log[k].ev = ev

\* The positions of the log at which a file at path p was written
WritesOf(p) ==
    { k \in 1..Len(log) :
        log[k].ev = "outCreated" /\ plan.ops[log[k].i].absolutePath = p }

\* The disk holds, at each path, the content of the last completed write of
\* this run to it, or what it held before the run; nothing else has changed
\* but for the parent directories that writeFile has made
DiskIsWhatWasWritten ==
    /\ DOMAIN disk0 \subseteq DOMAIN disk
    /\ \A k \in 1..Len(log) :
          log[k].ev = "outCreated" => plan.ops[log[k].i].absolutePath \in DOMAIN disk
    /\ \A p \in DOMAIN disk :
          IF WritesOf(p) # { }
          THEN LET last == CHOOSE k \in WritesOf(p) : \A j \in WritesOf(p) : j <= k
               IN  disk[p] = plan.ops[log[last].i].content
          ELSE IF p \in DOMAIN disk0 THEN disk[p] = disk0[p]
          ELSE /\ disk[p] = Directory
               /\ \E k \in 1..Len(log) :
                     /\ log[k].ev = "writeFile"
                     /\ dirname(plan.ops[log[k].i].absolutePath) = p

\* C4: once a resolution with applyToAll = true has been returned in a run,
\* promptForConflictResolution is not called again in that run, and every
\* later operation whose target exists is handled by that action: after
\* skip-all it is skipped and nothing is written to it, after overwrite-all
\* its write is made, with the planned content; an operation whose target
\* does not exist is written in both cases.
C4_ApplyToAllIsSticky ==
    /\ DiskIsWhatWasWritten
    /\ \A k \in 1..Len(log) :
          log[k].ev \in { "resolvedSkipAll", "resolvedOverwriteAll" } =>
              LET skipAll == log[k].ev = "resolvedSkipAll"
              IN  /\ conflictPolicy = IF skipAll THEN "skip" ELSE "overwrite"
                  /\ \A m \in (k + 1)..Len(log) :
                        /\ log[m].ev # "promptForConflictResolution"
                        /\ log[m].ev = "statExists" =>
                              /\ m < Len(log)
                              /\ log[m + 1] = Event(IF skipAll THEN "outSkipped"
                                                               ELSE "writeFile",
                                                    log[m].i)
                        /\ log[m].ev = "statMissing" =>
                              /\ m < Len(log)
                              /\ log[m + 1] = Event("writeFile", log[m].i)
                        /\ (log[m].ev = "outCreated" /\ m = Len(log)) =>
                              disk[plan.ops[log[m].i].absolutePath]
                                  = plan.ops[log[m].i].content

\* After overwrite-all, a later existing target and a later missing target
\* have both been written, and the run has completed
C4_Witness ==
    /\ outcome = "completed"
    /\ \E k, m, n \in 1..Len(log) :
          /\ k < m /\ k < n
          /\ m + 2 <= Len(log) /\ n + 2 <= Len(log)
          /\ log[k].ev = "resolvedOverwriteAll"
          /\ log[m].ev = "statExists" /\ log[m + 2] = Event("outCreated", log[m].i)
          /\ log[n].ev = "statMissing" /\ log[n + 2] = Event("outCreated", log[n].i)

\* C5: when the UI returns `cancel` for a conflicting file, the run ends as a
\* cancellation: the file keeps its content, no later operation is checked or
\* written, the files written earlier in the run keep their planned content,
\* and showError is not called.
C5_CancelResolutionEndsCleanly ==
    LogHas("resolvedCancel") =>
        /\ pc = "done" /\ outcome = "cancelled" /\ outstanding = { }
        /\ Len(log) >= 2
        /\ log[Len(log) - 1].ev = "resolvedCancel"
        /\ log[Len(log)] = Event("outCancelled", 0)
        /\ \A k \in 1..(Len(log) - 2) : log[k].ev # "resolvedCancel"
        /\ \A k \in 1..Len(log) :
              /\ log[k].ev \notin { "showError", "showSuccess", "showWarning" }
              /\ log[k].ev \in { "stat", "writeFile", "outCreated" } =>
                    log[k].i <= log[Len(log) - 1].i
              /\ log[k].ev \in { "writeFile", "outCreated" } =>
                    log[k].i < log[Len(log) - 1].i
        /\ DiskIsWhatWasWritten

\* The second file is cancelled after the first one was written
C5_Witness ==
    /\ LogHas("resolvedCancel")
    /\ log[Len(log) - 1] = Event("resolvedCancel", 2)
    /\ \E k \in 1..Len(log) : log[k] = Event("outCreated", 1)
    /\ plan.ops[1].absolutePath # plan.ops[2].absolutePath
    /\ disk[plan.ops[1].absolutePath] = plan.ops[1].content
    /\ disk[plan.ops[2].absolutePath] = OldContent

\* C6: if planFileOperations throws a validation error or a path-security
\* error, execute makes no file-system call (no stat, no writeFile) and no
\* conflict prompt: the files are as they were before the run, and the error
\* goes to showError.
C6_PlanningErrorDoesNoIO ==
    (pc = "done" /\ plan.kind \in { "validation", "security" }) =>
        /\ \A k \in 1..Len(log) :
              log[k].ev \notin { "stat", "statExists", "statMissing", "writeFile",
                                 "outCreated", "promptForConflictResolution" }
        /\ disk = disk0
        /\ created = << >>
        /\ outstanding = { }
        /\ outcome = "failed"
        /\ log[Len(log)] = Event("showError", 0)
        /\ log[Len(log) - 1].ev = IF plan.kind = "validation" THEN "outTemplateError"
                                                             ELSE "outSecurityError"

\* A template over the file-count limit was refused while files exist on disk
C6_Witness ==
    /\ pc = "done"
    /\ plan.kind = "validation"
    /\ Len(context.template.files) > limits.maxFilesPerTemplate
    /\ DiskPaths \subseteq DOMAIN disk
    /\ LogHas("showError")

\* C8: if writeFile fails for operation i, no operation after i is checked
\* for existence or written, the files written before i keep their planned
\* content, the error is reported through showError, and showSuccess is not
\* called.
C8_WriteFailureHalts ==
    LogHas("writeFailed") =>
        /\ pc = "done" /\ outcome = "failed" /\ outstanding = { }
        /\ Len(log) >= 4
        /\ log[Len(log) - 3].ev = "writeFile"
        /\ log[Len(log) - 2] = Event("writeFailed", log[Len(log) - 3].i)
        /\ log[Len(log) - 1] \in { Event(line, 0) : line \in WriteErrorLines }
        /\ log[Len(log)] = Event("showError", 0)
        /\ \A k \in 1..Len(log) :
              /\ log[k].ev \notin { "showSuccess", "showWarning" }
              /\ log[k].ev = "writeFailed" => k = Len(log) - 2
              /\ log[k].ev \in { "stat", "writeFile" } => log[k].i <= log[Len(log) - 2].i
              /\ log[k].ev = "outCreated" => log[k].i < log[Len(log) - 2].i
        /\ DiskIsWhatWasWritten

\* The write of the second file failed after the first file was written over
\* an old one
C8_Witness ==
    /\ LogHas("writeFailed")
    /\ log[Len(log) - 2] = Event("writeFailed", 2)
    /\ \E k \in 1..Len(log) : log[k] = Event("outCreated", 1)
    /\ plan.ops[1].absolutePath \in DOMAIN disk0
    /\ plan.ops[1].content # OldContent
    /\ disk[plan.ops[1].absolutePath] = plan.ops[1].content
    /\ plan.ops[1].absolutePath # plan.ops[2].absolutePath

\* The events of the log that are about operation i, in order
EventsOf(i) == SelectSeq(log, LAMBDA e : e.i = i)

\* Operation i is decided: written, skipped, or the run was aborted at it
Decided(i) ==
    LET es == EventsOf(i)
    IN  es # << >> /\ es[Len(es)].ev \in { "outCreated", "outSkipped" }

\* C9: the operations are processed in plan order, one at a time: the
\* existence check of operation i+1 starts only after operation i is decided
\* and, if it is written, after its write has returned; never is more than
\* one stat, conflict prompt or write outstanding.
C9_OneOperationAtATime ==
    /\ Cardinality(outstanding) <= 1
    /\ outstanding = IF pc \in { "stat", "prompt", "write" }
                     THEN { Event(pc, idx) } ELSE { }
    /\ \A k \in 1..Len(log) :
          /\ log[k].i # 0 =>
                \A m \in 1..k : log[m].i <= log[k].i
          /\ log[k].ev = "stat" =>
                /\ \A m \in 1..(k - 1) : log[m].i < log[k].i
                /\ log[k].i = 1 => log[k - 1].ev = "planned"
                /\ log[k].i > 1 =>
                      log[k - 1] \in { Event("outCreated", log[k].i - 1),
                                       Event("outSkipped", log[k].i - 1) }
          /\ (log[k].ev = "writeFile" /\ k < Len(log)) =>
                log[k + 1] \in { Event("outCreated", log[k].i),
                                 Event("writeFailed", log[k].i) }
          /\ (log[k].ev = "writeFile" /\ k = Len(log)) =>
                outstanding = { Event("write", log[k].i) }

\* The third operation is being written after the first was written and the
\* second skipped
C9_Witness ==
    /\ pc = "write" /\ idx = 3
    /\ outstanding = { Event("write", 3) }
    /\ Decided(1) /\ Decided(2)
    /\ \E k \in 1..Len(log) : log[k] = Event("outCreated", 1)
    /\ \E k \in 1..Len(log) : log[k] = Event("outSkipped", 2)

\* The policy the resolutions of this run, as logged, give
PolicyOfLog ==
    IF LogHas("resolvedSkipAll") THEN "skip"
    ELSE IF LogHas("resolvedOverwriteAll") THEN "overwrite"
    ELSE "ask"

\* A step of the policy: none, the start of a run, or an upgrade from `ask`
\* on a resolution with applyToAll = true
PolicyStep ==
    \/ conflictPolicy' = conflictPolicy
    \/ /\ pc = "plan" /\ pc' = "loop"
       /\ conflictPolicy' = "ask"
    \/ /\ pc = "prompt"
       /\ conflictPolicy = "ask"
       /\ \/ /\ conflictPolicy' = "skip"
             /\ log'[Len(log) + 1] = Event("resolvedSkipAll", idx)
          \/ /\ conflictPolicy' = "overwrite"
             /\ log'[Len(log) + 1] = Event("resolvedOverwriteAll", idx)

\* C10: the conflict policy is `ask` at the start of each run of
\* executeOperations, whatever an earlier run left; it changes only from
\* `ask` to overwrite-all or to skip-all, on a resolution with applyToAll =
\* true; a resolution with applyToAll = false leaves it; once it has left
\* `ask` it neither returns to `ask` nor changes between the two.
C10_PolicyIsMonotonic ==
    /\ [](LogHas("planned") =>
            /\ conflictPolicy = PolicyOfLog
            /\ Cardinality({ k \in 1..Len(log) :
                   log[k].ev \in { "resolvedSkipAll", "resolvedOverwriteAll" } }) <= 1)
    /\ [][PolicyStep]_vars

\* In a second run, after a resolution for one file only, overwrite-all was
\* chosen
C10_Witness ==
    /\ runs = 2
    /\ conflictPolicy = "overwrite"
    /\ \E k, m \in 1..Len(log) :
          /\ k < m
          /\ log[k].ev = "resolvedSkip"
          /\ log[m].ev = "resolvedOverwriteAll"

\* How a run in which cancellation was requested has ended
CancelledRunEnd ==
    (cancelRequested /\ pc = "done") =>
        \/ /\ outcome = "cancelled"
           /\ log[Len(log)] = Event("outCancelled", 0)
           /\ ~LogHas("showError") /\ ~LogHas("showSuccess") /\ ~LogHas("showWarning")
        \/ /\ outcome = "failed"
           /\ LogHas("writeFailed")
        \/ /\ outcome = "completed"
           /\ idx > Len(plan.ops)

\* A step of a run as far as the cancellation token decides it
CancelStep ==
    /\ (cancelRequested /\ pc # "stat") => pc' # "stat"
    /\ (pc = "loop" /\ cancelRequested /\ idx <= Len(plan.ops)) =>
          /\ pc' = "done" /\ outcome' = "cancelled"
          /\ log' = Append(log, Event("outCancelled", 0))
          /\ disk' = disk /\ created' = created
    /\ pc = "stat" => pc' # "done"
    /\ (pc = "prompt" /\ pc' = "done") =>
          log'[Len(log) + 1] = Event("resolvedCancel", idx)
    /\ pc = "write" =>
          \/ pc' = "write" /\ disk' = disk /\ log' = log
          \/ /\ pc' = "loop" /\ idx' = idx + 1
             /\ log' = Append(log, Event("outCreated", idx))
             /\ disk'[plan.ops[idx].absolutePath] = plan.ops[idx].content
          \/ /\ pc' = "done" /\ outcome' = "failed"
             /\ log'[Len(log) + 1] = Event("writeFailed", idx)
    /\ (cancelRequested /\ pc # "done") =>
          \/ idx' = idx
          \/ idx' = idx + 1 /\ pc' = "loop"

\* C11: the cancellation token is checked once, at the start of each
\* operation, before its existence check.  Once cancellation is requested no
\* further existence check is started and no operation after the one in
\* progress is written; a write in flight is completed, not interrupted.
\* When the token is seen at the start of an operation the run ends as a
\* cancellation: no showError, and the files written stay.  A request made
\* during the last operation is not seen and the run completes; a write in
\* flight that fails is reported as the failure it is.
C11_CancellationAtOperationStart ==
    /\ [](CancelledRunEnd /\ (outcome = "cancelled" => DiskIsWhatWasWritten))
    /\ [][CancelStep]_vars

\* The token ended the run after the write of the first of several
\* operations was completed
C11_Witness ==
    /\ pc = "done" /\ outcome = "cancelled" /\ cancelRequested
    /\ ~LogHas("resolvedCancel")
    /\ Len(plan.ops) >= 2 /\ idx = 2
    /\ log[Len(log) - 1] = Event("outCreated", 1)
    /\ disk[plan.ops[1].absolutePath] = plan.ops[1].content

\* C11 as stated: once cancellation has been requested the run ends as a
\* cancellation, not a failure, and showError is not called
C11_AsStated ==
    (cancelRequested /\ pc = "done") =>
        /\ outcome = "cancelled"
        /\ ~LogHas("showError")

\* The completed writes of the run, in the order of the log
CompletedWrites == SelectSeq(log, LAMBDA e : e.ev = "outCreated")

\* The result is the paths of the completed writes, which are in plan order;
\* a skipped operation has no write and adds nothing to the result
CreatedIsCompletedWrites ==
    /\ Len(created) = Len(CompletedWrites)
    /\ \A k \in 1..Len(created) :
          /\ created[k] = plan.ops[CompletedWrites[k].i].absolutePath
          /\ \A j \in 1..(k - 1) : CompletedWrites[j].i < CompletedWrites[k].i
    /\ \A k \in 1..Len(log) :
          log[k].ev = "outSkipped" =>
              /\ \A m \in 1..Len(log) :
                    log[m].ev \in { "writeFile", "outCreated" } => log[m].i # log[k].i
              /\ (\A j \in 1..Len(plan.ops) :
                     plan.ops[j].absolutePath = plan.ops[log[k].i].absolutePath
                         => ~Decided(j) \/ EventsOf(j)[Len(EventsOf(j))].ev = "outSkipped")
                 => \A n \in 1..Len(created) :
                        created[n] # plan.ops[log[k].i].absolutePath

\* A step that skips an operation leaves the files and the result as they are
SkipStep ==
    (Len(log') > Len(log) /\ log'[Len(log')].ev = "outSkipped") =>
        /\ log'[Len(log')].i = idx
        /\ plan.ops[idx].absolutePath \in DOMAIN disk
        /\ disk' = disk
        /\ created' = created

Reports ==
    { k \in 1..Len(log) : log[k].ev \in { "showSuccess", "showWarning", "showError" } }

\* C13: a run that completes normally (no cancellation, no error) makes one
\* result report: showSuccess when at least one file was written, else the
\* warning that no files were created; never both, never neither, also for an
\* empty template and for a run that skipped every file.
C13_OneResultReport ==
    /\ outcome = "completed" =>
          /\ pc = "done"
          /\ Reports = { Len(log) }
          /\ log[Len(log)].ev = IF created = << >> THEN "showWarning" ELSE "showSuccess"
          /\ created = << >> <=> ~LogHas("outCreated")
          /\ \A i \in 1..Len(plan.ops) : Decided(i)
    /\ LogHas("showSuccess") => outcome = "completed"

\* Every file of a template of two was skipped and the warning was shown
C13_Witness ==
    /\ outcome = "completed"
    /\ Len(plan.ops) = 2
    /\ created = << >>
    /\ \A i \in 1..2 : \E k \in 1..Len(log) : log[k] = Event("outSkipped", i)
    /\ log[Len(log)] = Event("showWarning", 0)

\* C14: if the user cancels the folder-name prompt or the template selection,
\* execute creates no file, makes no planning, stat or write call, calls
\* neither showError nor showSuccess, and logs the informational notice.
C14_InputCancelDoesNothing ==
    (outcome = "noInput" /\ LogHas("promptForFolderName")) =>
        /\ pc = "done"
        /\ log \in { << Event("promptForFolderName", 0), Event("outNotice", 0) >>,
                     << Event("promptForFolderName", 0), Event("selectTemplate", 0),
                        Event("outNotice", 0) >> }
        /\ plan = NoPlan
        /\ context = NoContext
        /\ created = << >>
        /\ disk = disk0
        /\ outstanding = { }

\* The template selection was cancelled in a second run, with files on disk
C14_Witness ==
    /\ outcome = "noInput"
    /\ runs = 2
    /\ log = << Event("promptForFolderName", 0), Event("selectTemplate", 0),
                Event("outNotice", 0) >>
    /\ DiskPaths \subseteq DOMAIN disk

---------------------------------------------------------------------------
(* More properties of planFileOperations, checked under SpecPlan *)

\* The variables planFileOperations substitutes
PlanVariables == (FolderNameKey :> context.folderName)

\* C15: when planFileOperations succeeds it returns one operation per
\* template file, in the order of the template's files: operations[i] has
\* templateFile files[i], content apply(files[i].content or "", {folderName})
\* and relativePath sanitizePath(apply(files[i].path, {folderName})).
C15_OneOperationPerFileInOrder ==
    PlanReturnedOk =>
        /\ Len(plan.ops) = Len(context.template.files)
        /\ \A i \in 1..Len(plan.ops) :
              LET file == context.template.files[i]
              IN  /\ plan.ops[i].templateFile = file
                  /\ plan.ops[i].content
                        = apply(ContentOrEmpty(file), PlanVariables).val
                  /\ plan.ops[i].relativePath
                        = sanitizePath(apply(file.path, PlanVariables).val)

\* Two files planned for the folder name MyC: "${folderName}" with content
\* "${folderName|kebabCase}", then "a" with content "x"
C15_Witness ==
    /\ PlanReturnedOk
    /\ context.folderName = << "M", "y", "C" >>
    /\ context.template.files
          = << File(FolderNameToken, FolderNameKebabToken), File(<< "a" >>, << "x" >>) >>
    /\ Len(plan.ops) = 2
    /\ plan.ops[1].relativePath = << "M", "y", "C" >>
    /\ plan.ops[1].content = << "m", "y", "-", "c" >>
    /\ plan.ops[2].relativePath = << "a" >>
    /\ plan.ops[2].content = << "x" >>

\* A text none of whose well-formed tokens names a key of the variables
NoKnownToken(text, variables) ==
    extractVariableNames(text) \cap DOMAIN variables = { }

\* C17: a well-formed token whose name is not a key of the variables map is
\* left as it is by apply, without an error, whatever identifier the name is;
\* so planFileOperations, whose map holds folderName only, leaves every other
\* token verbatim and does not fail because of one.
C17_UnknownTokensLeftVerbatim ==
    pc = "planReturned" =>
        /\ plan.kind # "typeError"
        /\ \A i \in 1..Len(context.template.files) :
              LET file == context.template.files[i]
              IN  /\ NoKnownToken(file.path, PlanVariables) =>
                        apply(file.path, PlanVariables)
                            = [ok |-> TRUE, val |-> file.path]
                  /\ NoKnownToken(ContentOrEmpty(file), PlanVariables) =>
                        apply(ContentOrEmpty(file), PlanVariables)
                            = [ok |-> TRUE, val |-> ContentOrEmpty(file)]

---------------------------------------------------------------------------
(* More properties of VariableSubstitution.apply, checked under SpecApply *)

\* The value with one backslash put before each "${" and before each
\* backtick, and each of its own backslashes doubled
RECURSIVE EscapedOnce(_)
EscapedOnce(value) ==
    IF value = << >> THEN << >>
    ELSE IF StartsWith(value, << "$", "{" >>)
    THEN << "\\", "$", "{" >> \o EscapedOnce(SubSeq(value, 3, Len(value)))
    ELSE IF Head(value) = Backtick
    THEN << "\\", Backtick >> \o EscapedOnce(Tail(value))
    ELSE IF Head(value) = "\\"
    THEN << "\\", "\\" >> \o EscapedOnce(Tail(value))
    ELSE << Head(value) >> \o EscapedOnce(Tail(value))

\* C16: the sanitized text that apply inserts for a value has one backslash
\* added before each "${", one backslash added before each backtick, and each
\* backslash of the value doubled; the backslashes the escaping inserts are
\* not escaped again.
C16_ValueEscapedOnce ==
    (/\ pc = "applyReturned"
     /\ sub.template = OuterToken
     /\ Outer \in DOMAIN sub.variables)
    => sub.result = [ok |-> TRUE, val |-> EscapedOnce(sub.variables[Outer])]

---------------------------------------------------------------------------
(* Properties of PathValidator, checked under SpecValidator *)

\* C18: validateFolderName returns an error message for every folder name
\* that holds ".." anywhere in it.
C18_DotDotIsRefused ==
    (pc = "validateReturned" /\ Includes(call.arg, DotDot)) =>
        call.result = "traversal"

\* A name with ".." in its middle, and nothing else wrong with it, is refused
C18_Witness ==
    /\ pc = "validateReturned"
    /\ call.arg = << "a", ".", ".", "a" >>
    /\ call.result = "traversal"

\* The name has no path separator, no invalid character, no reserved device
\* name as a prefix, is at most MAX_PATH_LENGTH bytes long, and after trimming
\* does not start or end with "." or space
NameAsRequired(name) ==
    /\ Range(name) \cap PathSeps = { }
    /\ Range(name) \cap INVALID_CHARS = { }
    /\ ReservedPrefixEnd(name) = 0 /\ ReservedPrefixEnd(Trim(name)) = 0
    /\ byteLength(name) <= MAX_PATH_LENGTH
    /\ Trim(name) # << >> =>
          /\ Trim(name)[1] \notin { ".", " " }
          /\ Trim(name)[Len(Trim(name))] \notin { ".", " " }

\* C19 as stated: validateFolderName returns no error for every name that has
\* no path separator, no invalid character, no reserved device-name prefix,
\* is at most 255 UTF-8 bytes long and, after trimming, does not start or end
\* with "." or space.
C19_AsStated ==
    (pc = "validateReturned" /\ NameAsRequired(call.arg)) => call.result = "ok"

\* C19: validateFolderName returns no error for every name that is not empty
\* after trimming, holds no "..", has no path separator, no invalid
\* character, no reserved device-name prefix, is at most 255 UTF-8 bytes long
\* and, after trimming, does not start or end with "." or space.
C19_RequiredNamesAreAccepted ==
    (/\ pc = "validateReturned"
     /\ NameAsRequired(call.arg)
     /\ Trim(call.arg) # << >>
     /\ ~Includes(call.arg, DotDot))
    => call.result = "ok"

\* A name of exactly MAX_PATH_LENGTH bytes, one character of two bytes among
\* them, is accepted
C19_Witness ==
    /\ pc = "validateReturned"
    /\ call.arg = Long(MAX_PATH_LENGTH - 2) \o << EAcute >>
    /\ byteLength(call.arg) = 255
    /\ call.result = "ok"

\* C20: for every input, sanitizePath returns a relative path with no
\* segment "..", no segment ".", no empty segment and no leading separator.
C20_SanitizedPathIsClean ==
    pc = "sanitizeReturned" =>
        \/ call.result = << >>
        \/ /\ call.result[1] \notin PathSeps
           /\ \A k \in DOMAIN Split(call.result, PathSeps) :
                 Split(call.result, PathSeps)[k] \notin { << >>, << "." >>, DotDot }

\* "\./a" is sanitized to "a"
C20_Witness ==
    /\ pc = "sanitizeReturned"
    /\ call.arg = << "\\", ".", "/", "a" >>
    /\ call.result = << "a" >>

---------------------------------------------------------------------------
(* Properties of PathValidator.isSafe, checked under SpecIsSafe *)

\* p is root itself or below it, segment by segment, after normalization
IsInside(p, root) ==
    /\ Len(Segments(p)) >= Len(Segments(root))
    /\ SubSeq(Segments(p), 1, Len(Segments(root))) = Segments(root)

\* C21: isSafe(resolvedPath, targetRoot) returns false for every resolved
\* path that after normalization is neither targetRoot itself nor a
\* descendant of targetRoot, and true for every path inside targetRoot.
C21_IsSafeIsContainment ==
    pc = "isSafeReturned" => (call.result <=> IsInside(call.arg, call.targetRoot))

---------------------------------------------------------------------------
(* Properties of execute on templates with path traversal, checked under
   SpecTraversal *)

\* A file path of the template has a ".." segment
HasTraversal(template) ==
    \E k \in 1..Len(template.files) :
       \E j \in DOMAIN Split(template.files[k].path, PathSeps) :
          Split(template.files[k].path, PathSeps)[j] = DotDot

\* C22: when the selected template holds a file path that traverses above the
\* target folder, and the template is within the limits, execute reports a
\* path-security error: the "Security Error" line is written to the output
\* channel and showError is called.
C22_TraversalIsReported ==
    (/\ pc = "done"
     /\ context # NoContext
     /\ HasTraversal(context.template)
     /\ plan.kind # "validation")
    => /\ LogHas("outSecurityError")
       /\ log[Len(log)] = Event("showError", 0)

---------------------------------------------------------------------------
(* Properties of the case transforms, checked under SpecCase *)

\* C23: each case transform is idempotent for every input x:
\* toKebab(toKebab(x)) = toKebab(x), toCamel(toCamel(x)) = toCamel(x) and
\* toPascal(toPascal(x)) = toPascal(x).
C23_CaseTransformsAreIdempotent ==
    pc = "caseReturned" =>
        /\ call.method = "toKebab" => toKebab(call.result) = call.result
        /\ call.method = "toCamel" => toCamel(call.result) = call.result
        /\ call.method = "toPascal" => toPascal(call.result) = call.result

\* toCamel has changed both the first letter and a letter after a separator,
\* and changes nothing when it is applied again
C23_Witness ==
    /\ pc = "caseReturned"
    /\ call.method = "toCamel"
    /\ call.arg = << "B", "-", "a" >>
    /\ call.result = << "b", "A" >>
    /\ toCamel(call.result) = call.result

\* k is made of words joined by single hyphens; each word has at least two
\* characters, starts with a lower-case letter and holds only lower-case
\* letters and digits
IsKebabWords(k) ==
    \A j \in DOMAIN Split(k, { "-" }) :
       LET word == Split(k, { "-" })[j]
       IN  /\ Len(word) >= 2
           /\ word[1] \in Lower
           /\ Range(word) \subseteq Lower \cup Digit

\* C24 as stated: for every input x with k = toKebab(x),
\* toKebab(toCamel(k)) = k and toKebab(toPascal(k)) = k.
C24_AsStated ==
    (pc = "caseReturned" /\ call.method = "toKebab") =>
        /\ toKebab(toCamel(call.result)) = call.result
        /\ toKebab(toPascal(call.result)) = call.result

\* C24: for every input x whose k = toKebab(x) is made of words joined by
\* single hyphens, each word of at least two characters, starting with a
\* lower-case letter and holding only lower-case letters and digits,
\* toKebab(toCamel(k)) = k and toKebab(toPascal(k)) = k.
C24_RoundTripThroughKebab ==
    (pc = "caseReturned" /\ call.method = "toKebab" /\ IsKebabWords(call.result)) =>
        /\ toKebab(toCamel(call.result)) = call.result
        /\ toKebab(toPascal(call.result)) = call.result

\* "Navigation Bar" makes the round trip through "navigation-bar"
C24_Witness ==
    /\ pc = "caseReturned"
    /\ call.method = "toKebab"
    /\ call.arg = << "N", "a", "v", "i", "g", "a", "t", "i", "o", "n", " ", "B", "a", "r" >>
    /\ call.result = << "n", "a", "v", "i", "g", "a", "t", "i", "o", "n", "-", "b", "a", "r" >>
    /\ IsKebabWords(call.result)
    /\ toCamel(call.result) = << "n", "a", "v", "i", "g", "a", "t", "i", "o", "n", "B", "a", "r" >>
    /\ toPascal(call.result) = << "N", "a", "v", "i", "g", "a", "t", "i", "o", "n", "B", "a", "r" >>

---------------------------------------------------------------------------
(* More properties of validateFolderName, checked under SpecValidator *)

\* The messages of the rules, in their order of priority
RuleMessages ==
    << "empty", "traversal", "absolute", "separator", "invalidChars",
       "reserved", "tooLong", "dotsOrSpaces" >>

\* The trimmed name breaks rule k
BreaksRule(k, trimmed) ==
    CASE k = 1 -> trimmed = << >>
      [] k = 2 -> \E i \in 1..(Len(trimmed) - 1) : trimmed[i] = "." /\ trimmed[i + 1] = "."
      [] k = 3 -> trimmed # << >> /\ trimmed[1] = "/"
      [] k = 4 -> \E i \in DOMAIN trimmed : trimmed[i] \in { "/", "\\" }
      [] k = 5 -> \E i \in DOMAIN trimmed : trimmed[i] \in INVALID_CHARS
      [] k = 6 -> RESERVED_NAMES(trimmed)
      [] k = 7 -> byteLength(trimmed) > 255
      [] k = 8 -> /\ trimmed # << >>
                  /\ \/ trimmed[1] \in { ".", " " }
                     \/ trimmed[Len(trimmed)] \in { ".", " " }

RulesBroken(trimmed) == { k \in DOMAIN RuleMessages : BreaksRule(k, trimmed) }

\* C25: validateFolderName applies its checks to the trimmed name in a fixed
\* order of priority (empty, "..", absolute path, separator, invalid
\* character, reserved name, longer than 255 bytes, starts or ends with "."
\* or space) and reports the first rule that is broken; a name that breaks
\* several rules gets the message of the earliest one, a name that breaks
\* none is accepted.
C25_FirstBrokenRuleIsReported ==
    pc = "validateReturned" =>
        LET broken == RulesBroken(Trim(call.arg))
        IN  IF broken = { } THEN call.result = "ok"
            ELSE call.result =
                    RuleMessages[CHOOSE k \in broken : \A j \in broken : k <= j]

\* "a/.." breaks the rules on "..", on separators and on the trailing dot,
\* and gets the message of the first
C25_Witness ==
    /\ pc = "validateReturned"
    /\ call.arg = << "a", "/", ".", "." >>
    /\ RulesBroken(Trim(call.arg)) = { 2, 4, 8 }
    /\ call.result = "traversal"

\* C26: validateFolderName gives the same result for a name and for that
\* name without its leading and trailing white space; a valid core padded
\* with white space is accepted.
C26_PaddingMakesNoDifference ==
    pc = "validateReturned" => call.result = validateFolderName(Trim(call.arg))

\* " a " is accepted, as "a" is
C26_Witness ==
    /\ pc = "validateReturned"
    /\ call.arg = << " ", "a", "\t" >>
    /\ Trim(call.arg) = << "a" >>
    /\ call.result = "ok"

---------------------------------------------------------------------------
(* The containment check of planFileOperations, checked under SpecPlan *)

\* C27: the containment check after sanitization never fails: for every
\* template, every folder name and every absolute targetRoot,
\* planFileOperations never raises PathSecurityError.
C27_ContainmentCheckNeverFails ==
    (pc = "planReturned" /\ isAbsolute(context.targetRoot)) => plan.kind # "security"

---------------------------------------------------------------------------
(* More properties of sanitizePath, checked under SpecValidator *)

\* The path has no leading separator, and its segments are all non-empty
\* and none is "." or ".."
IsValidRelativePath(p) ==
    /\ p # << >>
    /\ p[1] \notin PathSeps
    /\ \A k \in DOMAIN Split(p, PathSeps) :
          Split(p, PathSeps)[k] \notin { << >>, << "." >>, DotDot }

\* C28: sanitizePath returns unchanged, up to the platform separator, every
\* path that has no leading separator and whose segments are all non-empty
\* and none equal to "." or "..".
C28_ValidPathsArePreserved ==
    (pc = "sanitizeReturned" /\ IsValidRelativePath(call.arg)) =>
        Split(call.result, PathSeps) = Split(call.arg, PathSeps)

---------------------------------------------------------------------------
(* The limits and the planned contents, checked under SpecPlanSizes *)

\* The UTF-8 bytes of the contents of the first n operations
RECURSIVE PlannedBytes(_, _)
PlannedBytes(ops, n) ==
    IF n = 0 THEN 0 ELSE byteLength(ops[n].content) + PlannedBytes(ops, n - 1)

\* C29: every operation of a plan returned by planFileOperations has a
\* content of at most maxFileSizeBytes UTF-8 bytes, and the contents of the
\* whole plan total at most maxTotalSizeBytes.
C29_PlannedContentsWithinLimits ==
    PlanReturnedOk =>
        /\ \A k \in 1..Len(plan.ops) :
              byteLength(plan.ops[k].content) <= limits.maxFileSizeBytes
        /\ PlannedBytes(plan.ops, Len(plan.ops)) <= limits.maxTotalSizeBytes

---------------------------------------------------------------------------
(* The paths of a plan, checked under SpecTraversal *)

\* No element occurs twice in the sequence
IsInjective(seq) ==
    \A i \in DOMAIN seq : \A j \in DOMAIN seq : seq[i] = seq[j] => i = j

\* C30: the absolute paths of a plan returned by planFileOperations are
\* pairwise distinct, so a run of executeOperations never writes the same
\* path twice, never lists a path twice in the created-files result, and
\* never raises a conflict about a file that the same run created.
C30_PlannedPathsAreDistinct ==
    (pc \notin { "start", "plan" } /\ plan.kind = "ok") =>
        /\ IsInjective([k \in 1..Len(plan.ops) |-> plan.ops[k].absolutePath])
        /\ IsInjective(created)
        /\ \A k \in 1..Len(log) :
              log[k].ev = "promptForConflictResolution" =>
                  plan.ops[log[k].i].absolutePath \in DOMAIN disk0

===========================================================================
